---------------------------- MODULE Spec2Model ----------------------------
(***************************************************************************)
(* Verification model of the text notebook "Dealing with Text Data"        *)
(* (src/unnamed/part_000): the notebook's cells that build, fit and apply  *)
(* scikit-learn's CountVectorizer and TfidfVectorizer.                     *)
(*                                                                         *)
(* The notebook's own code is the sequence of library calls; what each     *)
(* call does is scikit-learn's behaviour (the release the notebook runs,   *)
(* which still has get_feature_names).  Every operator below names the     *)
(* call site in the notebook it models and, in its comment, the library    *)
(* routine whose behaviour it follows.                                     *)
(*                                                                         *)
(* Text is modelled character by character: a document is a sequence of    *)
(* one-character strings, a token is a sequence of characters too (an      *)
(* n-gram holds the joining spaces).                                       *)
(***************************************************************************)
EXTENDS Integers, Sequences, FiniteSets, TLC

(***************************************************************************)
(* Bounds of the model.                                                    *)
(***************************************************************************)
\* documents of a corpus (the notebook's speech_df has 58 rows)
MaxDocs == 2
\* vectorizer objects created in one run of the notebook
MaxObjects == 2
\* max_features=100 of the TfidfVectorizer cells, scaled to the model's vocabularies
MaxFeatures == 2
\* the 45 speeches of the training set (head(45) / tail(-45)), scaled to MaxDocs
TrainSize == 1
\* the rows of the survey file
MaxRows == 3
\* the count below which a category is uncommon (10 in the notebook), scaled to MaxRows
RareBelow == 2
\* the rows head() shows (5 of the 100 columns), scaled to MaxFeatures
MaxHead == 2

(***************************************************************************)
(* State: the global names of the notebooks.  The text notebook's names    *)
(* come first, then those of the two survey notebooks.                     *)
(***************************************************************************)
VARIABLES
    speech_text,          \* speech_df['text']
    corpus,               \* speech_df['text_clean']
    tie_order,            \* the order argsort lists equal keys in: "low" or "high"
    nobj,                 \* the number of vectorizer objects constructed so far
    cv,                   \* the name cv
    cv_array,             \* the name cv_array (cv_transformed.toarray())
    tv,                   \* the name tv
    tv_transformed,       \* the name tv_transformed
    test_tv_transformed,  \* the name test_tv_transformed
    tv_df,                \* the name tv_df
    test_tv_df,           \* the name test_tv_df
    sample_row,           \* the name sample_row
    cv_trigram_vec,       \* the name cv_trigram_vec
    cv_trigram,           \* the name cv_trigram
    cv_tri_df,            \* the name cv_tri_df
    printed,              \* the series an inspection cell printed last
    workers,              \* the calls of cv.transform in progress, one per thread
    cv_df,                \* the name cv_df
    speech_df_new,        \* the name speech_df_new
    csv,                  \* the columns of data/Combined_DS_v10.csv
    so_survey_df,         \* the name so_survey_df
    countries,            \* the name countries
    one_hot_encoded,      \* the name one_hot_encoded
    dummy,                \* the name dummy
    shown,                \* what the survey cell run last printed
    cell,                 \* the cell run last, "" before the first
    err                   \* what that cell raised, "none" if nothing

\* the names of the inspection cells and of the n-gram cells
inspect_vars == <<sample_row, cv_trigram_vec, cv_trigram, cv_tri_df, printed>>

\* the names of the survey notebooks
survey_vars == <<csv, so_survey_df, countries, one_hot_encoded, dummy, shown>>

\* the names that the cells from 'Counting words (I)' on, except 'Text to DataFrame',
\* neither read nor assign
data_vars == <<speech_text, cv_df, speech_df_new, survey_vars>>

vars == <<corpus, tie_order, nobj, cv, cv_array, tv, tv_transformed, test_tv_transformed,
          tv_df, test_tv_df, inspect_vars, workers, data_vars, cell, err>>

(***************************************************************************)
(* Characters.  Alphabet lists the characters of the model in code-point   *)
(* order, which is the order Python compares strings by.                   *)
(***************************************************************************)
Alphabet == <<" ", "-", "7", "C", "T", "_", "a", "b", "c", "d", "e", "g", "h", "o", "s", "t">>

Chars == {Alphabet[i] : i \in 1..Len(Alphabet)}

Ord(c) == CHOOSE i \in 1..Len(Alphabet) : Alphabet[i] = c

IsUpper(c) == c \in {"C", "T"}

IsLetter(c) == c \notin {" ", "-", "7", "_"}

\* \w of the default token_pattern: letters, digits and "_"
IsWordChar(c) == IsLetter(c) \/ c \in {"7", "_"}

\* str.lower on one character
LowerChar(c) == IF c = "C" THEN "c" ELSE IF c = "T" THEN "t" ELSE c

Lower(s) == [i \in 1..Len(s) |-> LowerChar(s[i])]

(***************************************************************************)
(* Python's order on strings: the first differing character decides, and a *)
(* proper prefix is smaller.                                               *)
(***************************************************************************)
RECURSIVE StrLess(_, _)
StrLess(s, t) ==
    IF t = <<>> THEN FALSE
    ELSE IF s = <<>> THEN TRUE
    ELSE IF Head(s) = Head(t) THEN StrLess(Tail(s), Tail(t))
    ELSE Ord(Head(s)) < Ord(Head(t))

\* sorted(S): the strings of S in ascending order
RECURSIVE Sorted(_)
Sorted(S) ==
    IF S = {} THEN <<>>
    ELSE LET m == CHOOSE x \in S : \A y \in S \ {x} : StrLess(x, y)
         IN  <<m>> \o Sorted(S \ {m})

\* " ".join(ws)
RECURSIVE Join(_)
Join(ws) ==
    IF ws = <<>> THEN <<>>
    ELSE IF Len(ws) = 1 THEN ws[1]
    ELSE ws[1] \o <<" ">> \o Join(Tail(ws))

(***************************************************************************)
(* A missing value of the text column.  The cleaning cell's str.replace    *)
(* and str.lower leave a missing text missing, and give a missing value    *)
(* for a text that is not a string: text_clean then holds NaN in that row. *)
(* The vectorizers' decode raises ValueError ("np.nan is an invalid        *)
(* document") when it meets one.                                           *)
(***************************************************************************)
NaN == <<"NaN">>

HasNaN(docs) == \E i \in 1..Len(docs) : docs[i] = NaN

(***************************************************************************)
(* The cleaning of the text column: .str.replace('[^a-zA-Z]', ' ') puts a  *)
(* space for every character that is not a letter, .str.lower() lowers the *)
(* letters.  Both leave a missing text missing.                            *)
(***************************************************************************)
\* Faulty variant of ReplaceNonLetters: the pattern '[^a-zA-Z]+', one space for a
\* whole run of characters that are not letters.
RECURSIVE ReplaceRunsOfNonLetters(_)
ReplaceRunsOfNonLetters(s) ==
    IF s = <<>> THEN <<>>
    ELSE IF IsLetter(Head(s)) THEN <<Head(s)>> \o ReplaceRunsOfNonLetters(Tail(s))
    ELSE IF Len(s) >= 2 /\ ~IsLetter(s[2]) THEN ReplaceRunsOfNonLetters(Tail(s))
    ELSE <<" ">> \o ReplaceRunsOfNonLetters(Tail(s))

\* re.sub('[^a-zA-Z]', ' ', s)
ReplaceNonLetters(s) == [i \in 1..Len(s) |-> IF IsLetter(s[i]) THEN s[i] ELSE " "]

\* column.str.method(): the method on every text, a missing value where there is none
Str(column, Method(_)) ==
    [i \in 1..Len(column) |-> IF column[i] = NaN THEN NaN ELSE Method(column[i])]

(***************************************************************************)
(* The default tokenizer, token_pattern (?u)\b\w\w+\b: the maximal runs of *)
(* word characters, of which those of two or more characters are tokens.   *)
(* Runs(s, cur) scans s with the run in progress in cur.                   *)
(***************************************************************************)
RECURSIVE Runs(_, _)
Runs(s, cur) ==
    IF s = <<>> THEN (IF cur = <<>> THEN <<>> ELSE <<cur>>)
    ELSE IF IsWordChar(Head(s)) THEN Runs(Tail(s), Append(cur, Head(s)))
    ELSE (IF cur = <<>> THEN <<>> ELSE <<cur>>) \o Runs(Tail(s), <<>>)

Tokenize(doc) == SelectSeq(Runs(doc, <<>>), LAMBDA w : Len(w) >= 2)

(***************************************************************************)
(* The analyzer of a vectorizer built with the options o (build_analyzer   *)
(* with analyzer='word'): lower-case, tokenize, drop the stop words, then  *)
(* form the word n-grams of ngram_range (_word_ngrams: the n-grams are     *)
(* taken over the tokens left after the stop words are dropped).           *)
(***************************************************************************)
Range(f) == {f[i] : i \in DOMAIN f}

NGramsOf(tokens, n) ==
    [i \in 1..(Len(tokens) - n + 1) |-> Join(SubSeq(tokens, i, i + n - 1))]

RECURSIVE NGramsFrom(_, _, _)
NGramsFrom(tokens, n, hi) ==
    IF n > hi THEN <<>>
    ELSE NGramsOf(tokens, n) \o NGramsFrom(tokens, n + 1, hi)

Min2(a, b) == IF a <= b THEN a ELSE b

\* Faulty variant of WordNgrams: the single tokens are kept whatever the range.
WordNgramsWithUnigrams(tokens, range) ==
    IF range[2] = 1 THEN tokens
    ELSE tokens \o NGramsFrom(tokens, IF range[1] = 1 THEN 2 ELSE range[1],
                              Min2(range[2], Len(tokens)))

WordNgrams(tokens, range) ==
    IF range[2] = 1 THEN tokens
    ELSE (IF range[1] = 1 THEN tokens ELSE <<>>)
         \o NGramsFrom(tokens, IF range[1] = 1 THEN 2 ELSE range[1],
                       Min2(range[2], Len(tokens)))

\* Faulty variant of Analyze: the stop words are not dropped.
AnalyzeKeepingStopWords(doc, o) == WordNgrams(Tokenize(Lower(doc)), o.ngram_range)

Analyze(doc, o) ==
    WordNgrams(SelectSeq(Tokenize(Lower(doc)), LAMBDA w : w \notin o.stop_words),
               o.ngram_range)

\* the number of times the feature t occurs among the features feats of a document
CountIn(t, feats) == Cardinality({i \in DOMAIN feats : feats[i] = t})

(***************************************************************************)
(* _count_vocab(raw_documents, fixed_vocab): the count matrix of docs over *)
(* the feature names given (one row per document, one column per name).    *)
(* A feature that is not among the names adds nothing to any entry.        *)
(***************************************************************************)
CountMatrix(docs, names, o) ==
    [i \in 1..Len(docs) |->
        LET feats == Analyze(docs[i], o)
        IN  [j \in 1..Len(names) |-> CountIn(names[j], feats)]]

\* the first occurrences of the elements of s, in their order
RECURSIVE FirstSeen(_, _)
FirstSeen(s, seen) ==
    IF s = <<>> THEN <<>>
    ELSE IF Head(s) \in seen THEN FirstSeen(Tail(s), seen)
    ELSE <<Head(s)>> \o FirstSeen(Tail(s), seen \cup {Head(s)})

RECURSIVE AnalyzeAll(_, _)
AnalyzeAll(docs, o) ==
    IF docs = <<>> THEN <<>> ELSE Analyze(Head(docs), o) \o AnalyzeAll(Tail(docs), o)

\* Faulty variant of CorpusFeatures: the features are left in the order they were
\* first met in (no _sort_features).
CorpusFeaturesUnsorted(docs, o) == FirstSeen(AnalyzeAll(docs, o), {})

\* the features of the corpus, sorted (_count_vocab, then _sort_features)
CorpusFeatures(docs, o) ==
    Sorted(UNION {Range(Analyze(docs[i], o)) : i \in 1..Len(docs)})

(***************************************************************************)
(* _document_frequency(X): per column, the number of rows with a non-zero  *)
(* entry; and the column sums X.sum(axis=0) that rank max_features.        *)
(***************************************************************************)
\* Faulty variant of DocumentFrequency: occurrences are summed, not documents counted.
DocumentFrequencyBySum(X, ncols) ==
    [j \in 1..ncols |->
        LET col == [i \in 1..Len(X) |-> X[i][j]]
            sum[n \in 0..Len(X)] == IF n = 0 THEN 0 ELSE col[n] + sum[n - 1]
        IN  sum[Len(X)]]

DocumentFrequency(X, ncols) ==
    [j \in 1..ncols |-> Cardinality({i \in 1..Len(X) : X[i][j] > 0})]

RECURSIVE SumTo(_, _)
SumTo(f, n) == IF n = 0 THEN 0 ELSE f[n] + SumTo(f, n - 1)

ColumnSums(X, ncols) ==
    [j \in 1..ncols |-> SumTo([i \in 1..Len(X) |-> X[i][j]], Len(X))]

(***************************************************************************)
(* Options of a vectorizer.  A document-frequency threshold is a record    *)
(* [int, num, den]: the integer count num (den = 1) or the float num/den,  *)
(* a proportion of the documents.  max_features = 0 stands for None, the   *)
(* empty stop_words set for None.                                          *)
(***************************************************************************)
Count(k) == [int |-> TRUE, num |-> k, den |-> 1]

Frac(a, b) == [int |-> FALSE, num |-> a, den |-> b]

\* max_df if isinstance(max_df, Integral) else max_df * n_doc, as the fraction <<p, q>>
DocCountOf(th, n_doc) == IF th.int THEN <<th.num, 1>> ELSE <<th.num * n_doc, th.den>>

\* CountVectorizer() and TfidfVectorizer() with no arguments
DefaultOptions(kind) ==
    [kind |-> kind, min_df |-> Count(1), max_df |-> Frac(1, 1), max_features |-> 0,
     stop_words |-> {}, ngram_range |-> <<1, 1>>]

(***************************************************************************)
(* _limit_features(X, vocabulary, high, low, limit) on the sorted names:   *)
(* keep the columns whose document frequency is within [low, high], both   *)
(* ends included; when more than limit columns are left, keep the limit    *)
(* columns with the largest column sums, (-tfs[mask]).argsort()[:limit].   *)
(* argsort's default sort is not stable, so which of several columns with  *)
(* equal sums it lists first is the sort implementation's choice: ties is  *)
(* "low" when the lower column comes first and "high" when the higher one  *)
(* does.  The result is the set of the column numbers kept.                *)
(***************************************************************************)
ArgsortBefore(tfs, k, j, ties) ==
    \/ tfs[k] > tfs[j]
    \/ tfs[k] = tfs[j] /\ (IF ties = "low" THEN k < j ELSE k > j)

\* Faulty variant of DfMask: the upper threshold is not applied.
DfMaskLowOnly(dfs, ncols, high, low) ==
    {j \in 1..ncols : dfs[j] * low[2] >= low[1]}

\* Faulty variant of DfMask: both comparisons are strict.
DfMaskStrict(dfs, ncols, high, low) ==
    {j \in 1..ncols : dfs[j] * high[2] < high[1] /\ dfs[j] * low[2] > low[1]}

DfMask(dfs, ncols, high, low) ==
    {j \in 1..ncols : dfs[j] * high[2] <= high[1] /\ dfs[j] * low[2] >= low[1]}

\* Faulty variant of LimitFeatures: the order of equal column sums differs from
\* one call to the next.
LimitFeaturesUnstable(X, ncols, high, low, limit, ties) ==
    LET dfs  == DocumentFrequency(X, ncols)
        mask == DfMask(dfs, ncols, high, low)
        tfs  == ColumnSums(X, ncols)
        now  == IF nobj % 2 = 0 THEN "low" ELSE "high"
    IN  IF limit # 0 /\ Cardinality(mask) > limit
        THEN {j \in mask :
                Cardinality({k \in mask : ArgsortBefore(tfs, k, j, now)}) < limit}
        ELSE mask

\* Faulty variant of LimitFeatures: the cut keeps one column more than limit.
LimitFeaturesOffByOne(X, ncols, high, low, limit, ties) ==
    LET dfs  == DocumentFrequency(X, ncols)
        mask == DfMask(dfs, ncols, high, low)
        tfs  == ColumnSums(X, ncols)
    IN  IF limit # 0 /\ Cardinality(mask) > limit
        THEN {j \in mask :
                Cardinality({k \in mask : ArgsortBefore(tfs, k, j, ties)}) <= limit}
        ELSE mask

\* Faulty variant of LimitFeatures: the column sums are sorted without the sign
\* change, so the cut keeps the least frequent columns.
LimitFeaturesLeastFrequent(X, ncols, high, low, limit, ties) ==
    LET dfs  == DocumentFrequency(X, ncols)
        mask == DfMask(dfs, ncols, high, low)
        tfs  == ColumnSums(X, ncols)
    IN  IF limit # 0 /\ Cardinality(mask) > limit
        THEN {j \in mask :
                Cardinality({k \in mask : ArgsortBefore(tfs, j, k, ties)}) < limit}
        ELSE mask

LimitFeatures(X, ncols, high, low, limit, ties) ==
    LET dfs  == DocumentFrequency(X, ncols)
        mask == DfMask(dfs, ncols, high, low)
        tfs  == ColumnSums(X, ncols)
    IN  IF limit # 0 /\ Cardinality(mask) > limit
        THEN {j \in mask :
                Cardinality({k \in mask : ArgsortBefore(tfs, k, j, ties)}) < limit}
        ELSE mask

\* the elements of the sequence s at the positions in keep, in their order
RECURSIVE Keep(_, _, _)
Keep(s, keep, i) ==
    IF i > Len(s) THEN <<>>
    ELSE (IF i \in keep THEN <<s[i]>> ELSE <<>>) \o Keep(s, keep, i + 1)

(***************************************************************************)
(* CountVectorizer.fit_transform(raw_documents) of a vectorizer with the   *)
(* options o, up to the point where it sets self.vocabulary_:              *)
(*   err    "none", or "ValueError" with what says which of the three      *)
(*          raise statements was reached;                                  *)
(*   names  the feature names in column order (get_feature_names());       *)
(*   dfs    the document frequency of each kept column;                    *)
(*   X      the count matrix of the documents over the kept columns,       *)
(*   n_doc  the number of documents.                                       *)
(* A missing document makes _count_vocab raise before anything else is     *)
(* looked at.                                                              *)
(***************************************************************************)
Failed(what) ==
    [err |-> "ValueError", what |-> what, names |-> <<>>, dfs |-> <<>>, X |-> <<>>,
     n_doc |-> 0]

FitTransform(docs, o, ties) ==
    LET all   == CorpusFeatures(docs, o)
        X     == CountMatrix(docs, all, o)
        n_doc == Len(docs)
        high  == DocCountOf(o.max_df, n_doc)
        low   == DocCountOf(o.min_df, n_doc)
        kept  == LimitFeatures(X, Len(all), high, low, o.max_features, ties)
        dfs   == DocumentFrequency(X, Len(all))
    IN  IF HasNaN(docs) THEN Failed("np.nan is an invalid document")
        ELSE IF all = <<>> THEN Failed("empty vocabulary")
        ELSE IF high[1] * low[2] < low[1] * high[2]
             THEN Failed("max_df corresponds to < documents than min_df")
        ELSE IF kept = {} THEN Failed("After pruning, no terms remain")
        ELSE [err |-> "none", what |-> "", names |-> Keep(all, kept, 1),
              dfs |-> Keep(dfs, kept, 1),
              X |-> [i \in 1..n_doc |-> Keep(X[i], kept, 1)], n_doc |-> n_doc]

(***************************************************************************)
(* Vectorizer objects.  A name of the notebook (cv, tv) holds Unbound      *)
(* until a cell assigns it, and then the object it refers to: no cell      *)
(* makes two names refer to one vectorizer, so an object is held by value  *)
(* with its identity in id.  fitted says whether the object has the        *)
(* attribute vocabulary_; names is vocabulary_ as get_feature_names()      *)
(* lists it (the token names[j] has column index j - 1); dfs and n_doc     *)
(* are the document frequencies and the document count of the fit, which   *)
(* a TfidfVectorizer keeps as idf_.                                        *)
(***************************************************************************)
Unbound ==
    [id |-> 0, o |-> DefaultOptions("count"), fitted |-> FALSE, names |-> <<>>,
     dfs |-> <<>>, n_doc |-> 0]

\* Faulty variant of Construct: the existing instance is reused (its parameters
\* are reset and it is fit again) instead of a new one being made.
ConstructInPlace(o, n) ==
    [id |-> IF n = 0 THEN 1 ELSE n, o |-> o, fitted |-> FALSE, names |-> <<>>,
     dfs |-> <<>>, n_doc |-> 0]

\* CountVectorizer(...) / TfidfVectorizer(...): a new, unfit object; n objects exist
Construct(o, n) ==
    [id |-> n + 1, o |-> o, fitted |-> FALSE, names |-> <<>>, dfs |-> <<>>, n_doc |-> 0]

\* self.vocabulary_ = vocabulary (and, in a TfidfVectorizer, self._tfidf.fit(X))
Bind(v, r) == [v EXCEPT !.fitted = TRUE, !.names = r.names, !.dfs = r.dfs,
                        !.n_doc = r.n_doc]

\* Faulty variant of AfterFit: vocabulary_ is assigned before the checks that
\* raise, so a failed fit leaves the attribute set.
AfterFitPartial(v, r) ==
    IF r.err = "none" THEN Bind(v, r) ELSE [v EXCEPT !.fitted = TRUE]

\* the object v after v.fit(docs) or v.fit_transform(docs) returned or raised,
\* r being the outcome FitTransform(docs, v.o, order) of the call
AfterFit(v, r) == IF r.err = "none" THEN Bind(v, r) ELSE v

\* vocabulary_: the mapping from the tokens to their column indices
VocabularyOf(v) ==
    [t \in Range(v.names) |-> (CHOOSE j \in 1..Len(v.names) : v.names[j] = t) - 1]

(***************************************************************************)
(* TfidfTransformer (smooth_idf=True, norm='l2', the defaults of a          *)
(* TfidfVectorizer).  Floating-point values are modelled in fixed point:    *)
(* the integer w stands for w / Scale.  Ln lists ln(1), ln(2), ... in that  *)
(* unit.                                                                   *)
(***************************************************************************)
Scale == 1000

Ln == <<0, 693, 1099, 1386, 1609, 1792, 1946, 2079>>

\* Faulty variant of Idf: the idf of smooth_idf=False, log(n_samples / df) + 1.
IdfUnsmoothed(df, n_doc) == Ln[n_doc] - Ln[df] + Scale

\* idf_ = log((1 + n_samples) / (1 + df)) + 1
Idf(df, n_doc) == Ln[1 + n_doc] - Ln[1 + df] + Scale

\* floor(sqrt(n)), by Newton's iteration from above
RECURSIVE Newton(_, _)
Newton(n, x) ==
    LET y == (x + n \div x) \div 2
    IN  IF y >= x THEN x ELSE Newton(n, y)

ISqrt(n) == IF n = 0 THEN 0 ELSE Newton(n, n)

\* a / b rounded to the nearest integer (a >= 0, b > 0)
DivRound(a, b) == (2 * a + b) \div (2 * b)

SumSq(row) == SumTo([j \in 1..Len(row) |-> row[j] * row[j]], Len(row))

\* Faulty variant of TfidfTransform: the rows are weighted but not normalized.
TfidfTransformNoNorm(X, dfs, n_doc) ==
    [i \in 1..Len(X) |-> [j \in 1..Len(X[i]) |-> X[i][j] * Idf(dfs[j], n_doc)]]

\* TfidfTransformer.transform(X): X * idf_, then normalize(X, norm='l2'), which
\* leaves a row whose sum of squares is 0 as it is and divides the others by
\* their Euclidean norm
TfidfTransform(X, dfs, n_doc) ==
    [i \in 1..Len(X) |->
        LET w    == [j \in 1..Len(X[i]) |-> X[i][j] * Idf(dfs[j], n_doc)]
            norm == ISqrt(SumSq(w))
        IN  IF norm = 0 THEN w
            ELSE [j \in 1..Len(w) |-> DivRound(w[j] * Scale, norm)]]

(***************************************************************************)
(* Matrices.  of is the id of the vectorizer that produced the matrix, X   *)
(* its rows of counts, W its values: the counts themselves for a           *)
(* CountVectorizer, the TF-IDF weights computed from the counts for a      *)
(* TfidfVectorizer (TfidfVectorizer.transform counts as its base class     *)
(* does, then weights with the idf_ of the fit, that is with the dfs and   *)
(* n_doc of the vectorizer).                                               *)
(***************************************************************************)
NoMatrix == [of |-> 0, X |-> <<>>, W |-> <<>>, dfs |-> <<>>, n_doc |-> 0]

Matrix(v, X) ==
    [of |-> v.id, X |-> X,
     W |-> IF v.o.kind = "tfidf" THEN TfidfTransform(X, v.dfs, v.n_doc) ELSE X,
     dfs |-> v.dfs, n_doc |-> v.n_doc]

(***************************************************************************)
(* v.transform(docs).  CountVectorizer.transform checks the vocabulary     *)
(* (_check_vocabulary raises NotFittedError) and counts over the fixed     *)
(* vocabulary; TfidfVectorizer.transform does the same and then weights,   *)
(* and the weighting's check_array rejects a matrix with no row.  A        *)
(* missing document makes the counting raise ValueError.  self is the      *)
(* object after the call: transform assigns no attribute.                  *)
(***************************************************************************)
\* Faulty variant of Transform: the vocabulary learns the tokens of the documents
\* it is applied to, as a fit on those documents would.
TransformLearning(v, docs) ==
    LET names == Sorted(Range(v.names) \cup Range(CorpusFeatures(docs, v.o)))
        X     == CountMatrix(docs, names, v.o)
        w     == [v EXCEPT !.names = names, !.dfs = DocumentFrequency(X, Len(names))]
    IN  IF ~v.fitted THEN [err |-> "NotFittedError", m |-> NoMatrix, self |-> v]
        ELSE IF HasNaN(docs) THEN [err |-> "ValueError", m |-> NoMatrix, self |-> v]
        ELSE [err |-> "none", m |-> Matrix(w, X), self |-> w]

\* Faulty variant of Transform: the vocabulary is not checked before counting.
TransformUnchecked(v, docs) ==
    IF HasNaN(docs) \/ (v.o.kind = "tfidf" /\ docs = <<>>)
    THEN [err |-> "ValueError", m |-> NoMatrix, self |-> v]
    ELSE [err |-> "none", m |-> Matrix(v, CountMatrix(docs, v.names, v.o)), self |-> v]

Transform(v, docs) ==
    IF ~v.fitted THEN [err |-> "NotFittedError", m |-> NoMatrix, self |-> v]
    ELSE IF HasNaN(docs) \/ (v.o.kind = "tfidf" /\ docs = <<>>)
         THEN [err |-> "ValueError", m |-> NoMatrix, self |-> v]
    ELSE [err |-> "none", m |-> Matrix(v, CountMatrix(docs, v.names, v.o)), self |-> v]

(***************************************************************************)
(* One call of cv.transform(docs) step by step, as a thread runs it next   *)
(* to other threads that call the same vectorizer.  The call checks the    *)
(* vocabulary (_check_vocabulary), then _count_vocab(fixed_vocab=True)     *)
(* goes through the documents one by one, looking every feature up in      *)
(* self.vocabulary_ and counting it in variables of its own, and at the    *)
(* end the matrix is built from the rows.  A worker is                     *)
(*   pc      "idle", "check", "count" or "done";                           *)
(*   of      the id of the vectorizer the call was made on;                *)
(*   docs    the documents of the call, rows the rows counted so far;      *)
(*   result, err  what the call returned or raised;                        *)
(*   overlapped   whether another call was in progress during a step of    *)
(*           this one (kept to tell interleaved calls from others).        *)
(***************************************************************************)
Workers == {"t1", "t2"}

Idle == [pc |-> "idle", of |-> 0, docs |-> <<>>, rows |-> <<>>, result |-> NoMatrix,
         err |-> "none", overlapped |-> FALSE]

\* Faulty variant of CountRow: a feature that is not in the vocabulary is added to
\* it (the lookup of a fit, fixed_vocab=False).
CountRowLearning(v, doc) ==
    LET names == Sorted(Range(v.names) \cup Range(Analyze(doc, v.o)))
    IN  [row  |-> [j \in 1..Len(names) |-> CountIn(names[j], Analyze(doc, v.o))],
         self |-> [v EXCEPT !.names = names, !.dfs = [j \in 1..Len(names) |-> 1]]]

\* one turn of the loop of _count_vocab: the row of doc over the vocabulary of v,
\* and v after it
CountRow(v, doc) ==
    [row  |-> [j \in 1..Len(v.names) |-> CountIn(v.names[j], Analyze(doc, v.o))],
     self |-> v]

(***************************************************************************)
(* pd.DataFrame(m.toarray(), columns=v.get_feature_names())                *)
(*   .add_prefix(prefix): the rows of the matrix under the column labels   *)
(* prefix + token.  (The constructor raises ValueError when the number of  *)
(* labels is not the number of columns.)                                   *)
(***************************************************************************)
NoFrame == [columns |-> <<>>, X |-> <<>>]

AddPrefix(prefix, names) == [j \in 1..Len(names) |-> <<prefix>> \o names[j]]

DataFrame(m, names, prefix) == [columns |-> AddPrefix(prefix, names), X |-> m.W]

\* Faulty variant of CheckedDataFrame: the frame is built whatever the shapes.
UncheckedDataFrame(m, names, prefix) ==
    [err |-> "none", df |-> DataFrame(m, names, prefix)]

\* pd.DataFrame(array, columns=names).add_prefix(prefix) on an array that need not
\* come from the vectorizer of the names: the constructor raises ValueError ("Shape
\* of passed values ...") when the array has another number of columns
CheckedDataFrame(m, names, prefix) ==
    IF Len(m.dfs) # Len(names) THEN [err |-> "ValueError", df |-> NoFrame]
    ELSE [err |-> "none", df |-> DataFrame(m, names, prefix)]

(***************************************************************************)
(* Series: a row of a data frame (df.iloc[0]) or its column sums           *)
(* (df.sum()), the values under the column labels.  sort_values(           *)
(* ascending=False) sorts with the default kind='quicksort', which is not  *)
(* stable: the order it leaves equal values in is the sort's choice, ties  *)
(* as for ArgsortBefore.  head(k) is the first k entries, all when there   *)
(* are fewer.                                                              *)
(***************************************************************************)
NoSeries == [index |-> <<>>, values |-> <<>>]

\* df.iloc[0]
Iloc0(df) == [index |-> df.columns, values |-> df.X[1]]

\* df.sum()
FrameSum(df) == [index |-> df.columns, values |-> ColumnSums(df.X, Len(df.columns))]

\* the position that comes r-th (from 0) when values is sorted in descending order
Ranked(values, r, ties) ==
    CHOOSE j \in 1..Len(values) :
        Cardinality({k \in 1..Len(values) : ArgsortBefore(values, k, j, ties)}) = r

\* Faulty variant of SortValues: the default ascending order.
SortValuesAscending(sr, ties) ==
    LET n == Len(sr.values)
        at(r) == Ranked(sr.values, n - r, ties)
    IN  [index |-> [r \in 1..n |-> sr.index[at(r)]],
         values |-> [r \in 1..n |-> sr.values[at(r)]]]

\* sr.sort_values(ascending=False)
SortValues(sr, ties) ==
    LET n == Len(sr.values)
        at(r) == Ranked(sr.values, r - 1, ties)
    IN  [index |-> [r \in 1..n |-> sr.index[at(r)]],
         values |-> [r \in 1..n |-> sr.values[at(r)]]]

\* sr.head(k)
SeriesHead(sr, k) ==
    [index |-> SubSeq(sr.index, 1, Min2(k, Len(sr.index))),
     values |-> SubSeq(sr.values, 1, Min2(k, Len(sr.values)))]

(***************************************************************************)
(* The corpora of the model: speech_df['text_clean'], the cleaned text     *)
(* column, holds lower-case words separated by spaces.  The documents of   *)
(* the model are built from a one-letter word (no token for the default    *)
(* tokenizer), an English stop word and three other words: the empty       *)
(* document, documents without any token, with a repeated word, with one,  *)
(* two and three different words.                                          *)
(***************************************************************************)
the == <<"t", "h", "e">>

cat == <<"c", "a", "t">>

dog == <<"d", "o", "g">>

sat == <<"s", "a", "t">>

DocWords == {<<>>, << <<"a">> >>, <<the>>, <<cat>>, <<cat, cat>>, <<the, dog>>,
             <<dog, sat>>, <<cat, dog, sat>>}

\* stop_words='english': the words of the pool that are in ENGLISH_STOP_WORDS
EnglishStopWords == {<<"a">>, the}

SeqsUpTo(S, n) == UNION {[1..k -> S] : k \in 0..n}

DocPool == {Join(ws) : ws \in DocWords}

\* five documents: "cat" is in one of them (0.2 of the corpus), "dog" in four (0.8)
FiveSpeeches == <<Join(<<cat, dog>>), dog, dog, Join(<<dog, sat>>), Join(<<the, sat>>)>>

Corpora == SeqsUpTo(DocPool, MaxDocs) \cup {FiveSpeeches}

(***************************************************************************)
(* The min_df / max_df pairs a CountVectorizer is limited with: the        *)
(* notebook's min_df=0.2, max_df=0.8, one pair with both thresholds at     *)
(* 0.5, and the notebook's pair swapped (min_df above max_df).             *)
(***************************************************************************)
DfPairs == {<<Frac(1, 5), Frac(4, 5)>>, <<Frac(1, 2), Frac(1, 2)>>,
            <<Frac(4, 5), Frac(1, 5)>>}

LimitedOptions(pair) ==
    [DefaultOptions("count") EXCEPT !.min_df = pair[1], !.max_df = pair[2]]

\* TfidfVectorizer(max_features=100, stop_words='english')
TfidfOptions ==
    [DefaultOptions("tfidf") EXCEPT !.max_features = MaxFeatures,
                                    !.stop_words = EnglishStopWords]

\* a name of the survey notebooks that is not bound, a file that is not there
Nothing == <<>>

\* no cell of the survey notebooks has run
NoSurvey ==
    /\ csv = Nothing
    /\ so_survey_df = Nothing
    /\ countries = Nothing
    /\ one_hot_encoded = Nothing
    /\ dummy = Nothing
    /\ shown = Nothing

\* no cell after the cleaning cell has run yet
UnrunText ==
    /\ tie_order \in {"low", "high"}
    /\ nobj = 0
    /\ cv = Unbound
    /\ cv_array = NoMatrix
    /\ tv = Unbound
    /\ tv_transformed = NoMatrix
    /\ test_tv_transformed = NoMatrix
    /\ tv_df = NoFrame
    /\ test_tv_df = NoFrame
    /\ sample_row = NoSeries
    /\ cv_trigram_vec = Unbound
    /\ cv_trigram = NoMatrix
    /\ cv_tri_df = NoFrame
    /\ printed = NoSeries
    /\ workers = [w \in Workers |-> Idle]
    /\ cv_df = NoFrame
    /\ speech_df_new = NoFrame
    /\ cell = ""
    /\ err = "none"

\* the text notebook after its cleaning cell, on a text column that the cleaning
\* left as it was
Unrun ==
    /\ UnrunText
    /\ speech_text = corpus
    /\ NoSurvey

Init ==
    /\ corpus \in Corpora
    /\ Unrun

\* the matrix a name holds after an assignment that ran only if nothing was raised
Assigned(ok, new, old) == IF ok THEN new ELSE old

(***************************************************************************)
(* Counting words (I): cv = CountVectorizer(); cv.fit(text_clean).         *)
(* The name is bound before fit runs, so a fit that raises leaves cv       *)
(* bound to the unfit object.                                              *)
(***************************************************************************)
CountingWordsI ==
    /\ nobj < MaxObjects
    /\ cell' = "CountingWordsI"
    /\ LET v == Construct(DefaultOptions("count"), nobj)
           r == FitTransform(corpus, v.o, tie_order)
       IN  /\ cv' = AfterFit(v, r)
           /\ nobj' = nobj + 1
           /\ err' = r.err
    /\ UNCHANGED <<corpus, tie_order, cv_array, tv, tv_transformed, test_tv_transformed,
                   tv_df, test_tv_df>>
    /\ UNCHANGED <<inspect_vars, workers, data_vars>>

(***************************************************************************)
(* Counting words (II): cv_transformed = cv.transform(text_clean);         *)
(* cv_array = cv_transformed.toarray().  The cell reads cv.                *)
(***************************************************************************)
CountingWordsII ==
    /\ cv.id # 0
    /\ cell' = "CountingWordsII"
    /\ LET r == Transform(cv, corpus)
       IN  /\ cv' = r.self
           /\ err' = r.err
           /\ cv_array' = Assigned(r.err = "none", r.m, cv_array)
    /\ UNCHANGED <<corpus, tie_order, nobj, tv, tv_transformed, test_tv_transformed,
                   tv_df, test_tv_df>>
    /\ UNCHANGED <<inspect_vars, workers, data_vars>>

(***************************************************************************)
(* Limiting your features: cv = CountVectorizer(min_df=.., max_df=..);     *)
(* cv_transformed = cv.fit_transform(text_clean); cv_array = ...toarray(). *)
(***************************************************************************)
LimitingFeatures(pair) ==
    /\ nobj < MaxObjects
    /\ cell' = "LimitingFeatures"
    /\ LET v == Construct(LimitedOptions(pair), nobj)
           r == FitTransform(corpus, v.o, tie_order)
           w == AfterFit(v, r)
       IN  /\ cv' = w
           /\ nobj' = nobj + 1
           /\ err' = r.err
           /\ cv_array' = Assigned(r.err = "none", Matrix(w, r.X), cv_array)
    /\ UNCHANGED <<corpus, tie_order, tv, tv_transformed, test_tv_transformed,
                   tv_df, test_tv_df>>
    /\ UNCHANGED <<inspect_vars, workers, data_vars>>

(***************************************************************************)
(* Tf-idf: tv = TfidfVectorizer(max_features=.., stop_words='english');    *)
(* tv_transformed = tv.fit_transform(text_clean); tv_df = pd.DataFrame(    *)
(* tv_transformed.toarray(), columns=tv.get_feature_names()).add_prefix(). *)
(***************************************************************************)
Tfidf ==
    /\ nobj < MaxObjects
    /\ cell' = "Tfidf"
    /\ LET v == Construct(TfidfOptions, nobj)
           r == FitTransform(corpus, v.o, tie_order)
           w == AfterFit(v, r)
       IN  /\ tv' = w
           /\ nobj' = nobj + 1
           /\ err' = r.err
           /\ tv_transformed' = Assigned(r.err = "none", Matrix(w, r.X), tv_transformed)
           /\ tv_df' = Assigned(r.err = "none",
                                DataFrame(Matrix(w, r.X), w.names, "TFIDF_"), tv_df)
    /\ UNCHANGED <<corpus, tie_order, cv, cv_array, test_tv_transformed, test_tv_df>>
    /\ UNCHANGED <<inspect_vars, workers, data_vars>>

(***************************************************************************)
(* Transforming unseen data: the corpus is split into its first TrainSize  *)
(* documents and the rest; a new tv is fit on the training documents only  *)
(* and then applied to the test documents, and test_tv_df is built from    *)
(* the test matrix.  An exception ends the cell where it is raised: the    *)
(* names assigned before it keep their new value.                          *)
(***************************************************************************)
\* Faulty variant of Head45: no split, the vectorizer is fit on every row.
HeadAll(docs) == docs

Head45(docs) == SubSeq(docs, 1, Min2(TrainSize, Len(docs)))

Tail45(docs) == SubSeq(docs, Min2(TrainSize, Len(docs)) + 1, Len(docs))

TransformingUnseenData ==
    /\ nobj < MaxObjects
    /\ cell' = "TransformingUnseenData"
    /\ LET v == Construct(TfidfOptions, nobj)
           r == FitTransform(Head45(corpus), v.o, tie_order)
           w == AfterFit(v, r)
           t == Transform(w, Tail45(corpus))
       IN  /\ tv' = IF r.err = "none" THEN t.self ELSE w
           /\ nobj' = nobj + 1
           /\ err' = IF r.err # "none" THEN r.err ELSE t.err
           /\ tv_transformed' = Assigned(r.err = "none", Matrix(w, r.X), tv_transformed)
           /\ test_tv_transformed' =
                  Assigned(r.err = "none" /\ t.err = "none", t.m, test_tv_transformed)
           /\ test_tv_df' =
                  Assigned(r.err = "none" /\ t.err = "none",
                           DataFrame(t.m, t.self.names, "TFIDF_"), test_tv_df)
    /\ UNCHANGED <<corpus, tie_order, cv, cv_array, tv_df>>
    /\ UNCHANGED <<inspect_vars, workers, data_vars>>

Next ==
    \/ CountingWordsI
    \/ CountingWordsII
    \/ \E pair \in DfPairs : LimitingFeatures(pair)
    \/ Tfidf
    \/ TransformingUnseenData

Spec == Init /\ [][Next]_vars

(***************************************************************************)
(* Inspecting Tf-idf values: sample_row = tv_df.iloc[0];                   *)
(* print(sample_row.sort_values(ascending=False).head()).  The cell reads  *)
(* tv_df.  k is the number of rows head shows.                             *)
(***************************************************************************)
InspectingTfidf(k) ==
    /\ tv_df # NoFrame
    /\ cell' = "InspectingTfidf"
    /\ sample_row' = Iloc0(tv_df)
    /\ \E ties \in {"low", "high"} :
          printed' = SeriesHead(SortValues(Iloc0(tv_df), ties), k)
    /\ err' = "none"
    /\ UNCHANGED <<corpus, tie_order, nobj, cv, cv_array, tv, tv_transformed,
                   test_tv_transformed, tv_df, test_tv_df, cv_trigram_vec, cv_trigram,
                   cv_tri_df, workers, data_vars>>

(***************************************************************************)
(* Using longer n-grams: cv_trigram_vec = CountVectorizer(max_features=..,  *)
(* stop_words='english', ngram_range=(3,3)); cv_trigram =                  *)
(* cv_trigram_vec.fit_transform(text_clean).  range is the ngram_range.    *)
(***************************************************************************)
NgramRanges == {<<1, 2>>, <<2, 3>>, <<3, 3>>}

NgramOptions(range) ==
    [DefaultOptions("count") EXCEPT !.max_features = MaxFeatures,
                                    !.stop_words = EnglishStopWords,
                                    !.ngram_range = range]

UsingLongerNgrams(range) ==
    /\ nobj < MaxObjects
    /\ cell' = "UsingLongerNgrams"
    /\ LET v == Construct(NgramOptions(range), nobj)
           r == FitTransform(corpus, v.o, tie_order)
           w == AfterFit(v, r)
       IN  /\ cv_trigram_vec' = w
           /\ nobj' = nobj + 1
           /\ err' = r.err
           /\ cv_trigram' = Assigned(r.err = "none", Matrix(w, r.X), cv_trigram)
    /\ UNCHANGED <<corpus, tie_order, cv, cv_array, tv, tv_transformed,
                   test_tv_transformed, tv_df, test_tv_df, sample_row, cv_tri_df,
                   printed, workers, data_vars>>

(***************************************************************************)
(* Finding the most common words: cv_tri_df = pd.DataFrame(                *)
(* cv_trigram.toarray(), columns=cv_trigram_vec.get_feature_names())       *)
(* .add_prefix('Counts_'); print(cv_tri_df.sum().sort_values(              *)
(* ascending=False).head()).  get_feature_names raises NotFittedError on   *)
(* an unfit vectorizer, the DataFrame constructor ValueError when the      *)
(* labels are not as many as the columns.                                  *)
(***************************************************************************)
MostCommonWords(k) ==
    /\ cv_trigram # NoMatrix
    /\ cell' = "MostCommonWords"
    /\ LET bad == IF ~cv_trigram_vec.fitted THEN "NotFittedError"
                  ELSE IF \E i \in 1..Len(cv_trigram.W) :
                              Len(cv_trigram.W[i]) # Len(cv_trigram_vec.names)
                       THEN "ValueError"
                  ELSE "none"
           df  == DataFrame(cv_trigram, cv_trigram_vec.names, "Counts_")
       IN  /\ err' = bad
           /\ cv_tri_df' = Assigned(bad = "none", df, cv_tri_df)
           /\ IF bad = "none"
              THEN \E ties \in {"low", "high"} :
                      printed' = SeriesHead(SortValues(FrameSum(df), ties), k)
              ELSE printed' = printed
    /\ UNCHANGED <<corpus, tie_order, nobj, cv, cv_array, tv, tv_transformed,
                   test_tv_transformed, tv_df, test_tv_df, sample_row, cv_trigram_vec,
                   cv_trigram, workers, data_vars>>

(***************************************************************************)
(* The notebook's second half, from the Tf-idf cell on, over corpora whose *)
(* documents are long enough for n-grams: a document too short for a       *)
(* trigram, a repeated word, a stop word between two words, n-grams that   *)
(* occur once and twice, one document and two.                             *)
(***************************************************************************)
InspectCorpora ==
    {<<Join(<<cat, dog>>)>>,
     <<Join(<<the, cat, cat, sat>>)>>,
     <<Join(<<cat, dog, sat, cat, dog>>)>>,
     <<Join(<<cat, the, dog, sat>>), Join(<<cat, dog>>)>>,
     <<Join(<<cat, dog, sat, cat, dog>>), Join(<<cat, dog, sat>>)>>,
     <<Join(<<the, cat, cat, sat>>), Join(<<dog, the, sat>>), the>>}

InitInspect ==
    /\ corpus \in InspectCorpora
    /\ Unrun

NextInspect ==
    \/ Tfidf
    \/ \E k \in 1..MaxHead : InspectingTfidf(k)
    \/ \E range \in NgramRanges : UsingLongerNgrams(range)
    \/ \E k \in 1..MaxHead : MostCommonWords(k)

SpecInspect == InitInspect /\ [][NextInspect]_vars

(***************************************************************************)
(* The cells that fit and apply a vectorizer, with the vectorizer's        *)
(* options drawn from a pool instead of the cell's literal ones.           *)
(* o is the argument list of the constructor.                              *)
(***************************************************************************)
\* cv = CountVectorizer(**o); cv_transformed = cv.fit_transform(text_clean);
\* cv_array = cv_transformed.toarray()
LimitingFeaturesWith(o) ==
    /\ nobj < MaxObjects
    /\ cell' = "LimitingFeatures"
    /\ LET v == Construct(o, nobj)
           r == FitTransform(corpus, v.o, tie_order)
           w == AfterFit(v, r)
       IN  /\ cv' = w
           /\ nobj' = nobj + 1
           /\ err' = r.err
           /\ cv_array' = Assigned(r.err = "none", Matrix(w, r.X), cv_array)
    /\ UNCHANGED <<corpus, tie_order, tv, tv_transformed, test_tv_transformed,
                   tv_df, test_tv_df>>
    /\ UNCHANGED <<inspect_vars, workers, data_vars>>

\* tv = <vectorizer>(**o); tv_transformed = tv.fit_transform(train_speech_df[..]);
\* test_tv_transformed = tv.transform(test_speech_df[..]); test_tv_df = ...
TransformingUnseenDataWith(o) ==
    /\ nobj < MaxObjects
    /\ cell' = "TransformingUnseenData"
    /\ LET v == Construct(o, nobj)
           r == FitTransform(Head45(corpus), v.o, tie_order)
           w == AfterFit(v, r)
           t == Transform(w, Tail45(corpus))
       IN  /\ tv' = IF r.err = "none" THEN t.self ELSE w
           /\ nobj' = nobj + 1
           /\ err' = IF r.err # "none" THEN r.err ELSE t.err
           /\ tv_transformed' = Assigned(r.err = "none", Matrix(w, r.X), tv_transformed)
           /\ test_tv_transformed' =
                  Assigned(r.err = "none" /\ t.err = "none", t.m, test_tv_transformed)
           /\ test_tv_df' =
                  Assigned(r.err = "none" /\ t.err = "none",
                           DataFrame(t.m, t.self.names, "TFIDF_"), test_tv_df)
    /\ UNCHANGED <<corpus, tie_order, cv, cv_array, tv_df>>
    /\ UNCHANGED <<inspect_vars, workers, data_vars>>

\* CountVectorizer(min_df=0, max_df=1.0)
AllDfOptions ==
    [DefaultOptions("count") EXCEPT !.min_df = Count(0), !.max_df = Frac(1, 1)]

\* CountVectorizer(stop_words='english', ...) with the other limits set or not
StopWordOptions ==
    LET sw == [DefaultOptions("count") EXCEPT !.stop_words = EnglishStopWords]
    IN  {sw,
         [sw EXCEPT !.min_df = Count(2)],
         [sw EXCEPT !.max_df = Frac(1, 2)],
         [sw EXCEPT !.max_features = 1],
         [sw EXCEPT !.ngram_range = <<1, 2>>]}

CountOptions == {DefaultOptions("count"), AllDfOptions} \cup StopWordOptions

UnseenOptions == {DefaultOptions("count"), TfidfOptions}

(***************************************************************************)
(* Corpora for these cells: the two examples of the specification, one     *)
(* with words of two letters, corpora with a stop word in every document,  *)
(* and corpora with a missing text.                                        *)
(***************************************************************************)
aa == <<"a", "a">>

bb == <<"b", "b">>

cc == <<"c", "c">>

dd == <<"d", "d">>

TheCatSat == <<Join(<<the, cat, sat>>), Join(<<the, dog, sat>>)>>

ABC == <<Join(<< <<"a">>, <<"b">>, <<"c">> >>), Join(<< <<"a">>, <<"b">>, <<"d">> >>)>>

AaBbCc == <<Join(<<aa, bb, cc>>), Join(<<aa, bb, dd>>)>>

ExampleCorpora ==
    {TheCatSat, ABC, AaBbCc, FiveSpeeches,
     <<Join(<<the, the, cat>>), Join(<<the, dog>>), Join(<<sat, the, cat>>)>>,
     <<Join(<<cat, dog>>), NaN>>,
     <<Join(<<cat, dog>>), <<>>>>,
     <<NaN, Join(<<cat, dog>>)>>}

InitExamples ==
    /\ corpus \in ExampleCorpora
    /\ Unrun

NextExamples ==
    \/ \E o \in CountOptions : LimitingFeaturesWith(o)
    \/ CountingWordsII
    \/ \E o \in UnseenOptions : TransformingUnseenDataWith(o)

SpecExamples == InitExamples /\ [][NextExamples]_vars

(***************************************************************************)
(* The first cell of the text notebook: the speeches are loaded and        *)
(* speech_df['text_clean'] is made from speech_df['text'].  Before it has  *)
(* run there is no column text_clean.                                      *)
(***************************************************************************)
CleaningText ==
    /\ cell' = "CleaningText"
    /\ err' = "none"
    /\ corpus' = Str(Str(speech_text, ReplaceNonLetters), Lower)
    /\ UNCHANGED <<speech_text, tie_order, nobj, cv, cv_array, tv, tv_transformed,
                   test_tv_transformed, tv_df, test_tv_df, inspect_vars, workers, cv_df,
                   speech_df_new, survey_vars>>

RawTextPool ==
    {<<>>, NaN, Join(<<cat, dog>>), <<"T", "h", "e", "-", "C", "a", "t">>,
     <<"T", "7", "_", "a">>, <<"C", "-", "-">>, <<" ", " ">>,
     <<"d", "o", "7", "g", " ", "C", "a", "t", "_">>}

InitClean ==
    /\ speech_text \in SeqsUpTo(RawTextPool, MaxDocs)
    /\ corpus = <<>>
    /\ UnrunText
    /\ NoSurvey

NextClean ==
    \/ CleaningText
    \/ CountingWordsI

SpecClean == InitClean /\ [][NextClean]_vars

(***************************************************************************)
(* Text to DataFrame: cv_df = pd.DataFrame(cv_array, columns=              *)
(* cv.get_feature_names()).add_prefix('Counts_'); speech_df_new =          *)
(* pd.concat([speech_df, cv_df], axis=1).  The cell reads the names        *)
(* cv_array and cv, whichever cells bound them last.  get_feature_names    *)
(* raises NotFittedError on a vectorizer whose fit failed.                 *)
(***************************************************************************)
TextToDataFrame ==
    /\ cv.id # 0
    /\ cv_array # NoMatrix
    /\ cell' = "TextToDataFrame"
    /\ LET f == IF cv.fitted THEN CheckedDataFrame(cv_array, cv.names, "Counts_")
                ELSE [err |-> "NotFittedError", df |-> NoFrame]
       IN  /\ err' = f.err
           /\ cv_df' = Assigned(f.err = "none", f.df, cv_df)
           /\ speech_df_new' =
                  Assigned(f.err = "none",
                           [text |-> speech_text, text_clean |-> corpus,
                            columns |-> f.df.columns, X |-> f.df.X],
                           speech_df_new)
    /\ UNCHANGED <<corpus, speech_text, tie_order, nobj, cv, cv_array, tv, tv_transformed,
                   test_tv_transformed, tv_df, test_tv_df, inspect_vars, workers,
                   survey_vars>>

CellCorpora ==
    {<<>>, <<cat>>, <<Join(<<cat, dog>>), dog>>, <<Join(<<the, cat>>), Join(<<the, dog>>)>>,
     FiveSpeeches}

InitCells ==
    /\ corpus \in CellCorpora
    /\ Unrun

\* the cells that bind cv or cv_array and the cell that reads both, in any order
NextCells ==
    \/ CountingWordsI
    \/ CountingWordsII
    \/ \E pair \in DfPairs : LimitingFeatures(pair)
    \/ TextToDataFrame

SpecCells == InitCells /\ [][NextCells]_vars

(***************************************************************************)
(* The train/test cell run on data that differ in the test rows only: the  *)
(* rows of speech_df after the training rows are replaced by others        *)
(* between two runs of the cell.                                           *)
(***************************************************************************)
TrainingRows(docs) == SubSeq(docs, 1, Min2(TrainSize, Len(docs)))

TestRowPool ==
    {<<>>, <<sat>>, <<Join(<<the, cat, cat>>)>>, <<Join(<<dog, sat>>), cat>>,
     <<Join(<<cat, dog>>), Join(<<sat, sat, dog>>)>>}

\* the training rows are all there (speech_df.head(45) has its 45 rows) and stay
OtherTestRows(rows) ==
    /\ Len(corpus) >= TrainSize
    /\ corpus' = TrainingRows(corpus) \o rows
    /\ corpus' # corpus
    /\ UNCHANGED <<tie_order, nobj, cv, cv_array, tv, tv_transformed, test_tv_transformed,
                   tv_df, test_tv_df, inspect_vars, workers, data_vars, cell, err>>

TrainPool ==
    {<<>>, <<the>>, <<Join(<<cat, dog>>)>>, <<Join(<<the, cat, cat, sat>>)>>,
     <<Join(<<cat, dog>>), Join(<<dog, sat>>)>>, <<Join(<<the, dog>>), cat, sat>>}

InitTwoRuns ==
    /\ corpus \in TrainPool
    /\ Unrun

NextTwoRuns ==
    \/ \E rows \in TestRowPool : OtherTestRows(rows)
    \/ \E o \in UnseenOptions : TransformingUnseenDataWith(o)

SpecTwoRuns == InitTwoRuns /\ [][NextTwoRuns]_vars

(***************************************************************************)
(* The survey notebooks.  A data frame is a function from its column names *)
(* to its columns, all of one length.  A number that may be missing is a   *)
(* record: NA is the missing value (NaN), Num(x) the number x.  A Country  *)
(* is a string, "NaN" when missing; a RawSalary is a sequence of           *)
(* characters, NaN when missing.                                           *)
(***************************************************************************)
NA == [na |-> TRUE, v |-> 0]

Num(x) == [na |-> FALSE, v |-> x]

NumericColumns == {"ConvertedSalary", "StackOverflowJobsRecommend"}

WithColumn(df, name, column) ==
    [c \in DOMAIN df \cup {name} |-> IF c = name THEN column ELSE df[c]]

\* DataFrame.fillna(0): the number 0 for every missing value, whatever the column
FillNa0(df) ==
    [c \in DOMAIN df |->
        [i \in 1..Len(df[c]) |->
            IF c \in NumericColumns
            THEN (IF df[c][i].na THEN Num(0) ELSE df[c][i])
            ELSE IF c = "Country"
            THEN (IF df[c][i] = "NaN" THEN "0" ELSE df[c][i])
            ELSE (IF df[c][i] = NaN THEN <<"0">> ELSE df[c][i])]]

(***************************************************************************)
(* Getting to know your data: so_survey_df = pd.read_csv(...).fillna(0);   *)
(* the first rows are printed.                                             *)
(***************************************************************************)
GettingToKnowYourData ==
    /\ csv # Nothing
    /\ cell' = "GettingToKnowYourData"
    /\ err' = "none"
    /\ so_survey_df' = FillNa0(csv)
    /\ shown' = FillNa0(csv)
    /\ UNCHANGED <<csv, countries, one_hot_encoded, dummy>>
    /\ UNCHANGED <<corpus, speech_text, tie_order, nobj, cv, cv_array, tv, tv_transformed,
                   test_tv_transformed, tv_df, test_tv_df, inspect_vars, workers, cv_df,
                   speech_df_new>>

(***************************************************************************)
(* pd.get_dummies(df, columns=[column], prefix=prefix, drop_first=...):    *)
(* the other columns as they are (others), then one indicator column per   *)
(* category of the column, the categories in sorted order (columns, named  *)
(* prefix_category), without the first when drop_first is set.  X holds    *)
(* the indicators row by row.  CategoryOrder lists the values of the model *)
(* in the order pandas sorts them (the number 0 before the strings).       *)
(***************************************************************************)
CategoryOrder == <<"0", "France", "India", "Other", "Spain">>

SortedCategories(S) == SelectSeq(CategoryOrder, LAMBDA c : c \in S)

\* Faulty variant of Dropped: the last category is dropped, not the first.
DroppedLast(cats, drop_first) ==
    IF drop_first /\ cats # <<>> THEN SubSeq(cats, 1, Len(cats) - 1) ELSE cats

Dropped(cats, drop_first) == IF drop_first /\ cats # <<>> THEN Tail(cats) ELSE cats

GetDummies(df, column, prefix, drop_first) ==
    LET kept == Dropped(SortedCategories(Range(df[column])), drop_first)
    IN  [others  |-> [c \in DOMAIN df \ {column} |-> df[c]],
         prefix  |-> prefix,
         columns |-> kept,
         X       |-> [i \in 1..Len(df[column]) |->
                        [j \in 1..Len(kept) |-> IF df[column][i] = kept[j] THEN 1 ELSE 0]]]

\* One-hot encoding and dummy variables; the cell prints the columns of both frames
OneHotEncoding ==
    /\ so_survey_df # Nothing
    /\ cell' = "OneHotEncoding"
    /\ err' = "none"
    /\ one_hot_encoded' = GetDummies(so_survey_df, "Country", "OH", FALSE)
    /\ dummy' = GetDummies(so_survey_df, "Country", "DM", TRUE)
    /\ shown' = <<one_hot_encoded'.columns, dummy'.columns>>
    /\ UNCHANGED <<csv, so_survey_df, countries>>
    /\ UNCHANGED <<corpus, speech_text, tie_order, nobj, cv, cv_array, tv, tv_transformed,
                   test_tv_transformed, tv_df, test_tv_df, inspect_vars, workers, cv_df,
                   speech_df_new>>

(***************************************************************************)
(* Dealing with uncommon categories: countries = so_survey_df['Country'];  *)
(* country_counts = countries.value_counts(); mask = countries.isin(       *)
(* country_counts[country_counts < 10].index); countries[mask] = 'Other'.  *)
(* countries is the column of the frame itself or a copy of it, as pandas  *)
(* decides (it warns: "A value is trying to be set on a copy of a slice"): *)
(* the assignment reaches the frame's column or it does not.               *)
(***************************************************************************)
ValueCount(column, c) == Cardinality({i \in 1..Len(column) : column[i] = c})

\* Faulty variant of Uncommon: a category that occurs exactly RareBelow times is
\* uncommon as well.
UncommonOrEqual(column, c) == ValueCount(column, c) <= RareBelow

Uncommon(column, c) == ValueCount(column, c) < RareBelow

Relabelled(column) ==
    [i \in 1..Len(column) |-> IF Uncommon(column, column[i]) THEN "Other" ELSE column[i]]

ValueCounts(column) == [c \in Range(column) |-> ValueCount(column, c)]

UncommonCategories ==
    /\ so_survey_df # Nothing
    /\ cell' = "UncommonCategories"
    /\ err' = "none"
    /\ countries' = Relabelled(so_survey_df["Country"])
    /\ so_survey_df' \in {so_survey_df, WithColumn(so_survey_df, "Country", countries')}
    /\ shown' = ValueCounts(countries')
    /\ UNCHANGED <<csv, one_hot_encoded, dummy>>
    /\ UNCHANGED <<corpus, speech_text, tie_order, nobj, cv, cv_array, tv, tv_transformed,
                   test_tv_transformed, tv_df, test_tv_df, inspect_vars, workers, cv_df,
                   speech_df_new>>

CountryPool == {"France", "India", "Other", "NaN"}

\* a file with the given countries and a salary in every row
CountryFile(column) ==
    [c \in {"Country", "ConvertedSalary", "StackOverflowJobsRecommend", "RawSalary"} |->
        [i \in 1..Len(column) |->
            IF c = "Country" THEN column[i]
            ELSE IF c = "ConvertedSalary" THEN Num(20000 * i)
            ELSE IF c = "StackOverflowJobsRecommend" THEN Num(7)
            ELSE <<"2">>]]

InitCategories ==
    /\ corpus = <<>>
    /\ speech_text = <<>>
    /\ UnrunText
    /\ csv \in {CountryFile(column) : column \in SeqsUpTo(CountryPool, MaxRows)}
    /\ so_survey_df = Nothing
    /\ countries = Nothing
    /\ one_hot_encoded = Nothing
    /\ dummy = Nothing
    /\ shown = Nothing

NextCategories ==
    \/ GettingToKnowYourData
    \/ OneHotEncoding
    \/ UncommonCategories

SpecCategories == InitCategories /\ [][NextCategories]_vars

(***************************************************************************)
(* Binarizing columns: so_survey_df['Paid_Job'] = 0; so_survey_df.loc[     *)
(* so_survey_df['ConvertedSalary'] > 0, 'Paid_Job'] = 1.  A comparison     *)
(* with a missing value is False.                                          *)
(***************************************************************************)
\* Faulty variant of PaidJob: the comparison is >= 0.
PaidJobNonNegative(salary) ==
    [i \in 1..Len(salary) |-> IF ~salary[i].na /\ salary[i].v >= 0 THEN 1 ELSE 0]

PaidJob(salary) ==
    [i \in 1..Len(salary) |-> IF ~salary[i].na /\ salary[i].v > 0 THEN 1 ELSE 0]

Binarizing ==
    /\ so_survey_df # Nothing
    /\ cell' = "Binarizing"
    /\ err' = "none"
    /\ so_survey_df' =
           WithColumn(so_survey_df, "Paid_Job", PaidJob(so_survey_df["ConvertedSalary"]))
    /\ shown' = <<so_survey_df'["Paid_Job"], so_survey_df'["ConvertedSalary"]>>
    /\ UNCHANGED <<csv, countries, one_hot_encoded, dummy>>
    /\ UNCHANGED <<corpus, speech_text, tie_order, nobj, cv, cv_array, tv, tv_transformed,
                   test_tv_transformed, tv_df, test_tv_df, inspect_vars, workers, cv_df,
                   speech_df_new>>

(***************************************************************************)
(* Binning values.  pd.cut(column, bins=5) cuts the range of the column    *)
(* into five intervals of equal width, closed on the right, the first      *)
(* widened to hold the minimum (a column of one value is cut around that   *)
(* value, which falls in the third interval); it raises ValueError on an   *)
(* empty column, which ends the cell.  pd.cut(column, bins=bins,           *)
(* labels=labels) with bins = [-inf, 10000, 50000, 100000, 150000, inf]    *)
(* gives the label of the interval (bins[k], bins[k+1]] a value is in.  A  *)
(* missing value has no interval.                                          *)
(***************************************************************************)
Minimum(S) == CHOOSE x \in S : \A y \in S : x <= y

Maximum(S) == CHOOSE x \in S : \A y \in S : x >= y

EqualWidthBin(column, i) ==
    LET present == {column[k].v : k \in {k \in 1..Len(column) : ~column[k].na}}
        mn == Minimum(present)
        mx == Maximum(present)
        d  == column[i].v - mn
    IN  IF column[i].na THEN 0
        ELSE IF mn = mx THEN 3
        ELSE IF d = 0 THEN 1
        ELSE (5 * d + (mx - mn) - 1) \div (mx - mn)

bins == <<10000, 50000, 100000, 150000>>

labels == <<"Very low", "Low", "Medium", "High", "Very high">>

\* Faulty variant of Cut: right=False, the intervals closed on the left.
CutLeftClosed(x, edges, names) ==
    IF x.na THEN "NaN"
    ELSE names[1 + Cardinality({k \in 1..Len(edges) : x.v >= edges[k]})]

\* the label of x: edges are the finite boundaries, in ascending order
Cut(x, edges, names) ==
    IF x.na THEN "NaN"
    ELSE names[1 + Cardinality({k \in 1..Len(edges) : x.v > edges[k]})]

BinningValues ==
    /\ so_survey_df # Nothing
    /\ cell' = "BinningValues"
    /\ LET salary == so_survey_df["ConvertedSalary"]
           equal  == [i \in 1..Len(salary) |-> EqualWidthBin(salary, i)]
           bound  == [i \in 1..Len(salary) |-> Cut(salary[i], bins, labels)]
       IN  IF \A i \in 1..Len(salary) : salary[i].na
           THEN /\ err' = "ValueError"
                /\ UNCHANGED <<so_survey_df, shown>>
           ELSE /\ err' = "none"
                /\ so_survey_df' = WithColumn(WithColumn(so_survey_df, "equal_binned", equal),
                                              "boundary_binned", bound)
                /\ shown' = <<bound, salary>>
    /\ UNCHANGED <<csv, countries, one_hot_encoded, dummy>>
    /\ UNCHANGED <<corpus, speech_text, tie_order, nobj, cv, cv_array, tv, tv_transformed,
                   test_tv_transformed, tv_df, test_tv_df, inspect_vars, workers, cv_df,
                   speech_df_new>>

SalaryPool ==
    {NA, Num(-5), Num(0), Num(1), Num(10000), Num(10001), Num(50000), Num(50001),
     Num(100000), Num(100001), Num(150000), Num(150001)}

\* a file with the given salaries, the same country in every row
SalaryFile(column) ==
    [c \in {"Country", "ConvertedSalary", "StackOverflowJobsRecommend", "RawSalary"} |->
        [i \in 1..Len(column) |->
            IF c = "Country" THEN "France"
            ELSE IF c = "ConvertedSalary" THEN column[i]
            ELSE IF c = "StackOverflowJobsRecommend" THEN Num(7)
            ELSE <<"2">>]]

InitNumbers ==
    /\ corpus = <<>>
    /\ speech_text = <<>>
    /\ UnrunText
    /\ csv \in {SalaryFile(column) : column \in SeqsUpTo(SalaryPool, MaxRows - 1)}
    /\ so_survey_df = Nothing
    /\ countries = Nothing
    /\ one_hot_encoded = Nothing
    /\ dummy = Nothing
    /\ shown = Nothing

NextNumbers ==
    \/ GettingToKnowYourData
    \/ Binarizing
    \/ BinningValues

SpecNumbers == InitNumbers /\ [][NextNumbers]_vars

(***************************************************************************)
(* Dealing with messy data.  The notebook reads the same file without      *)
(* fillna, so missing values stay missing.  The column                     *)
(* StackOverflowJobsRecommend of this notebook is held in thousandths      *)
(* (Scale), since its mean is not a whole number.  The dtype of RawSalary  *)
(* is kept with the column, since the cells of this notebook change it.    *)
(***************************************************************************)
Object(column) == [dtype |-> "object", values |-> column]

Float64(column) == [dtype |-> "float64", values |-> column]

(***************************************************************************)
(* Dealing with stray characters.  An entry of RawSalary in the file is a  *)
(* text such as $1,2 or is empty (NaN).  read_csv gives the column a       *)
(* numeric dtype when every entry that is present is a number (int64 when  *)
(* they are all whole and none is missing, float64 otherwise) and leaves   *)
(* it as strings (object) otherwise, and when the file has no rows.        *)
(* Series.str is refused on a numeric column (AttributeError).             *)
(* str.replace with a pattern of one character replaces that character     *)
(* literally, '$' too.  astype(float) raises ValueError when an entry is   *)
(* not a number, and leaves a missing entry missing.  A float is held in   *)
(* thousandths.                                                            *)
(***************************************************************************)
IsDigit(c) == c \in {"0", "1", "2", "5"}

Digit(c) == IF c = "0" THEN 0 ELSE IF c = "1" THEN 1 ELSE IF c = "2" THEN 2 ELSE 5

RECURSIVE DigitsValue(_)
DigitsValue(s) ==
    IF Len(s) = 0 THEN 0
    ELSE 10 * DigitsValue(SubSeq(s, 1, Len(s) - 1)) + Digit(s[Len(s)])

Points(s) == {i \in 1..Len(s) : s[i] = "."}

\* the texts float() takes, among those over the characters of the files
ValidFloat(s) ==
    /\ \A i \in 1..Len(s) : IsDigit(s[i]) \/ s[i] = "."
    /\ Cardinality(Points(s)) <= 1
    /\ \E i \in 1..Len(s) : IsDigit(s[i])

Pow10(n) == IF n = 0 THEN 1 ELSE IF n = 1 THEN 10 ELSE IF n = 2 THEN 100 ELSE 1000

FloatValue(s) ==
    LET p     == IF Points(s) = {} THEN Len(s) + 1 ELSE CHOOSE i \in Points(s) : TRUE
        whole == SubSeq(s, 1, p - 1)
        frac  == SubSeq(s, p + 1, Min2(p + 3, Len(s)))
    IN  DigitsValue(whole) * Scale + DigitsValue(frac) * Pow10(3 - Len(frac))

ToFloats(values) ==
    [i \in 1..Len(values) |-> IF values[i] = NaN THEN NA ELSE Num(FloatValue(values[i]))]

IsNumeric(values) ==
    /\ Len(values) > 0
    /\ \A i \in 1..Len(values) : values[i] = NaN \/ ValidFloat(values[i])

IsWhole(values) ==
    \A i \in 1..Len(values) : values[i] # NaN /\ Points(values[i]) = {}

ReadRawSalary(values) ==
    IF ~IsNumeric(values) THEN Object(values)
    ELSE IF IsWhole(values) THEN [dtype |-> "int64", values |-> ToFloats(values)]
    ELSE Float64(ToFloats(values))

ReadCsv(file) ==
    [c \in DOMAIN file |-> IF c = "RawSalary" THEN ReadRawSalary(file[c]) ELSE file[c]]

\* How sparse is my data?  The counts it prints are of the columns Age and
\* Gender, which are not in the model.
HowSparseIsMyData ==
    /\ csv # Nothing
    /\ cell' = "HowSparseIsMyData"
    /\ err' = "none"
    /\ so_survey_df' = ReadCsv(csv)
    /\ shown' = Nothing
    /\ UNCHANGED <<csv, countries, one_hot_encoded, dummy>>
    /\ UNCHANGED <<corpus, speech_text, tie_order, nobj, cv, cv_array, tv, tv_transformed,
                   test_tv_transformed, tv_df, test_tv_df, inspect_vars, workers, cv_df,
                   speech_df_new>>

(***************************************************************************)
(* Filling continuous missing values.  Series.mean() skips the missing     *)
(* entries and is NaN when none is present; fillna(NaN) fills nothing.     *)
(* round(Series) rounds half to even.  The cell prints the head of the     *)
(* column before the fill, after the first fill, and after the rounding.   *)
(***************************************************************************)
Present(column) == {i \in 1..Len(column) : ~column[i].na}

Total(column) ==
    SumTo([i \in 1..Len(column) |-> IF column[i].na THEN 0 ELSE column[i].v], Len(column))

\* The mean with every missing entry counted as 0, which Series.mean() does not compute.
MeanOfAll(column) ==
    IF Len(column) = 0 THEN NA ELSE Num(DivRound(Total(column), Len(column)))

Mean(column) ==
    IF Present(column) = {} THEN NA
    ELSE Num(DivRound(Total(column), Cardinality(Present(column))))

FillNa(column, value) ==
    [i \in 1..Len(column) |-> IF column[i].na THEN value ELSE column[i]]

RoundHalfEven(x) ==
    LET q == x \div Scale
        r == x % Scale
    IN  IF 2 * r < Scale THEN q * Scale
        ELSE IF 2 * r > Scale THEN (q + 1) * Scale
        ELSE IF q % 2 = 0 THEN q * Scale ELSE (q + 1) * Scale

Round(column) ==
    [i \in 1..Len(column) |->
        IF column[i].na THEN NA ELSE Num(RoundHalfEven(column[i].v))]

HeadRows(column) == SubSeq(column, 1, Min2(5, Len(column)))

FillingContinuousMissingValues ==
    /\ so_survey_df # Nothing
    /\ cell' = "FillingContinuousMissingValues"
    /\ err' = "none"
    /\ LET column == so_survey_df["StackOverflowJobsRecommend"]
           filled == FillNa(column, Mean(column))
           again  == FillNa(filled, Mean(filled))
       IN  /\ so_survey_df' =
                  WithColumn(so_survey_df, "StackOverflowJobsRecommend", Round(again))
           /\ shown' = <<HeadRows(column), HeadRows(filled), HeadRows(Round(again))>>
    /\ UNCHANGED <<csv, countries, one_hot_encoded, dummy>>
    /\ UNCHANGED <<corpus, speech_text, tie_order, nobj, cv, cv_array, tv, tv_transformed,
                   test_tv_transformed, tv_df, test_tv_df, inspect_vars, workers, cv_df,
                   speech_df_new>>

RecommendPool == {NA, Num(0), Num(7 * Scale), Num(8 * Scale), Num(10 * Scale)}

RecommendFile(column) ==
    [c \in {"Country", "ConvertedSalary", "StackOverflowJobsRecommend", "RawSalary"} |->
        [i \in 1..Len(column) |->
            IF c = "Country" THEN "France"
            ELSE IF c = "ConvertedSalary" THEN Num(20000 * i)
            ELSE IF c = "StackOverflowJobsRecommend" THEN column[i]
            ELSE <<"2">>]]

InitMissing ==
    /\ corpus = <<>>
    /\ speech_text = <<>>
    /\ UnrunText
    /\ csv \in {RecommendFile(column) : column \in SeqsUpTo(RecommendPool, MaxRows)}
    /\ so_survey_df = Nothing
    /\ countries = Nothing
    /\ one_hot_encoded = Nothing
    /\ dummy = Nothing
    /\ shown = Nothing

NextMissing ==
    \/ HowSparseIsMyData
    \/ FillingContinuousMissingValues

SpecMissing == InitMissing /\ [][NextMissing]_vars

(***************************************************************************)
(* The cells that deal with stray characters and the chained form.         *)
(***************************************************************************)
Remove(s, ch) == SelectSeq(s, LAMBDA c : c # ch)

\* column.str.replace(ch, '')
StrReplace(column, ch) ==
    IF column.dtype # "object" THEN [err |-> "AttributeError", column |-> column]
    ELSE [err |-> "none",
          column |-> Object(Str(column.values, LAMBDA s : Remove(s, ch)))]

\* column.astype(float)
AsTypeFloat(column) ==
    IF column.dtype # "object" THEN [err |-> "none", column |-> Float64(column.values)]
    ELSE IF \E i \in 1..Len(column.values) :
                column.values[i] # NaN /\ ~ValidFloat(column.values[i])
    THEN [err |-> "ValueError", column |-> column]
    ELSE [err |-> "none", column |-> Float64(ToFloats(column.values))]

\* a further method of a chain: it is not called when an earlier one raised
Then(step, Method(_)) == IF step.err # "none" THEN step ELSE Method(step.column)

\* Dealing with stray characters (I)
StrayCharactersI ==
    /\ so_survey_df # Nothing
    /\ cell' = "StrayCharactersI"
    /\ LET commas  == StrReplace(so_survey_df["RawSalary"], ",")
           dollars == Then(commas, LAMBDA c : StrReplace(c, "$"))
       IN  /\ err' = dollars.err
           /\ so_survey_df' = WithColumn(so_survey_df, "RawSalary", dollars.column)
    /\ shown' = Nothing
    /\ UNCHANGED <<csv, countries, one_hot_encoded, dummy>>
    /\ UNCHANGED <<corpus, speech_text, tie_order, nobj, cv, cv_array, tv, tv_transformed,
                   test_tv_transformed, tv_df, test_tv_df, inspect_vars, workers, cv_df,
                   speech_df_new>>

\* the rows pd.to_numeric(column, errors='coerce') has no number for
NotNumeric(column) ==
    IF column.dtype # "object"
    THEN SelectSeq(column.values, LAMBDA x : x.na)
    ELSE SelectSeq(column.values, LAMBDA s : s = NaN \/ ~ValidFloat(s))

\* Dealing with stray characters (II): the rows that are not numbers are
\* printed, '£' is removed and the result assigned, the column is cast and the
\* result assigned, and the head is printed.
StrayCharactersII ==
    /\ so_survey_df # Nothing
    /\ cell' = "StrayCharactersII"
    /\ LET column == so_survey_df["RawSalary"]
           pounds == StrReplace(column, "£")
           floats == Then(pounds, AsTypeFloat)
       IN  /\ err' = floats.err
           /\ so_survey_df' = WithColumn(so_survey_df, "RawSalary", floats.column)
           /\ shown' = IF floats.err = "none"
                       THEN <<HeadRows(NotNumeric(column)), HeadRows(floats.column.values)>>
                       ELSE <<HeadRows(NotNumeric(column))>>
    /\ UNCHANGED <<csv, countries, one_hot_encoded, dummy>>
    /\ UNCHANGED <<corpus, speech_text, tie_order, nobj, cv, cv_array, tv, tv_transformed,
                   test_tv_transformed, tv_df, test_tv_df, inspect_vars, workers, cv_df,
                   speech_df_new>>

\* the chain with the '$' step doing nothing
ChainedKeepingDollars(file) ==
    Then(Then(StrReplace(ReadCsv(file)["RawSalary"], ","),
              LAMBDA c : StrReplace(c, "£")),
         AsTypeFloat)

\* pd.read_csv(...)['RawSalary'].str.replace(',', '').str.replace('$', '')
\*     .str.replace('£', '').astype(float)
Chained(file) ==
    Then(Then(Then(StrReplace(ReadCsv(file)["RawSalary"], ","),
                   LAMBDA c : StrReplace(c, "$")),
              LAMBDA c : StrReplace(c, "£")),
         AsTypeFloat)

\* Method chaining: the column is assigned when the whole chain has a value
MethodChaining ==
    /\ so_survey_df # Nothing
    /\ csv # Nothing
    /\ cell' = "MethodChaining"
    /\ err' = Chained(csv).err
    /\ IF Chained(csv).err = "none"
       THEN /\ so_survey_df' = WithColumn(so_survey_df, "RawSalary", Chained(csv).column)
            /\ shown' = <<HeadRows(Chained(csv).column.values)>>
       ELSE /\ so_survey_df' = so_survey_df
            /\ shown' = Nothing
    /\ UNCHANGED <<csv, countries, one_hot_encoded, dummy>>
    /\ UNCHANGED <<corpus, speech_text, tie_order, nobj, cv, cv_array, tv, tv_transformed,
                   test_tv_transformed, tv_df, test_tv_df, inspect_vars, workers, cv_df,
                   speech_df_new>>

RawSalaryPool ==
    {NaN, <<"2">>, <<"1", ".", "5">>, <<"$", "1", ",", "2">>, <<"£", "2", ".">>,
     <<"x", "1">>, <<",", "$">>}

RawSalaryFile(column) ==
    [c \in {"Country", "ConvertedSalary", "StackOverflowJobsRecommend", "RawSalary"} |->
        [i \in 1..Len(column) |->
            IF c = "Country" THEN "France"
            ELSE IF c = "ConvertedSalary" THEN Num(20000 * i)
            ELSE IF c = "StackOverflowJobsRecommend" THEN Num(7 * Scale)
            ELSE column[i]]]

InitStray ==
    /\ corpus = <<>>
    /\ speech_text = <<>>
    /\ UnrunText
    /\ csv \in {RawSalaryFile(column) : column \in SeqsUpTo(RawSalaryPool, MaxRows - 1)}
    /\ so_survey_df = Nothing
    /\ countries = Nothing
    /\ one_hot_encoded = Nothing
    /\ dummy = Nothing
    /\ shown = Nothing

NextStray ==
    \/ HowSparseIsMyData
    \/ StrayCharactersI
    \/ StrayCharactersII
    \/ MethodChaining

SpecStray == InitStray /\ [][NextStray]_vars

(***************************************************************************)
(* Calls of cv.transform from two threads.  The vectorizer is fit by the   *)
(* cell Counting words (I) while no call is in progress; from then on the  *)
(* threads call cv.transform on batches of their own, and their steps      *)
(* interleave in any order.  No lock is taken anywhere.                    *)
(***************************************************************************)
Batches ==
    {<<>>,
     <<Join(<<cat, cat>>)>>,
     <<Join(<<the, dog>>), Join(<<dog, sat>>)>>,
     <<sat, Join(<<cat, dog, sat>>), the>>}

Running(w) == workers[w].pc \in {"check", "count"}

names_of_cells == <<cv_array, tv, tv_transformed, test_tv_transformed, tv_df, test_tv_df,
                    inspect_vars, data_vars, cell, err>>

FitWhileNoCall ==
    /\ \A w \in Workers : ~Running(w)
    /\ CountingWordsI

\* a thread calls cv.transform(docs)
Call(w, docs) ==
    /\ ~Running(w)
    /\ cv.id # 0
    /\ workers' = [workers EXCEPT ![w] = [Idle EXCEPT !.pc = "check", !.of = cv.id,
                                                      !.docs = docs]]
    /\ UNCHANGED <<corpus, tie_order, nobj, cv, names_of_cells>>

\* self._check_vocabulary()
CheckVocabulary(w) ==
    /\ workers[w].pc = "check"
    /\ workers' = [workers EXCEPT ![w] =
                      IF cv.fitted THEN [@ EXCEPT !.pc = "count"]
                      ELSE [@ EXCEPT !.pc = "done", !.err = "NotFittedError"]]
    /\ UNCHANGED <<corpus, tie_order, nobj, cv, names_of_cells>>

\* the next document of the loop
CountDocument(w) ==
    /\ workers[w].pc = "count"
    /\ Len(workers[w].rows) < Len(workers[w].docs)
    /\ LET r == CountRow(cv, workers[w].docs[Len(workers[w].rows) + 1])
       IN  /\ workers' = [workers EXCEPT ![w] =
                             [@ EXCEPT !.rows = Append(@, r.row),
                                       !.overlapped =
                                           @ \/ \E u \in Workers \ {w} : Running(u)]]
           /\ cv' = r.self
    /\ UNCHANGED <<corpus, tie_order, nobj, names_of_cells>>

\* the matrix is built and returned
Return(w) ==
    /\ workers[w].pc = "count"
    /\ Len(workers[w].rows) = Len(workers[w].docs)
    /\ workers' = [workers EXCEPT ![w] =
                      [@ EXCEPT !.pc = "done", !.result = Matrix(cv, workers[w].rows)]]
    /\ UNCHANGED <<corpus, tie_order, nobj, cv, names_of_cells>>

ParallelCorpora == {<<>>, <<Join(<<cat, dog>>)>>, <<Join(<<the, dog>>), Join(<<cat, cat, sat>>)>>}

InitParallel ==
    /\ corpus \in ParallelCorpora
    /\ Unrun

NextParallel ==
    \/ FitWhileNoCall
    \/ \E w \in Workers, docs \in Batches : Call(w, docs)
    \/ \E w \in Workers : CheckVocabulary(w)
    \/ \E w \in Workers : CountDocument(w)
    \/ \E w \in Workers : Return(w)

SpecParallel == InitParallel /\ [][NextParallel]_vars

(***************************************************************************)
(* Properties.  The definitions below state the documents' side of a       *)
(* property without using the fit: the features of a document, and the     *)
(* document frequency of a token counted over the documents themselves.    *)
(***************************************************************************)
FeaturesOf(doc, o) == Range(Analyze(doc, o))

FeaturesOfAll(docs, o) == UNION {FeaturesOf(docs[i], o) : i \in 1..Len(docs)}

\* DF(t): the number of the documents that contain the token t at least once
DF(t, docs, o) == Cardinality({i \in 1..Len(docs) : t \in FeaturesOf(docs[i], o)})

\* the number of the features of doc, repetitions counted, that are among names
InVocabulary(doc, names, o) ==
    LET feats == Analyze(doc, o)
    IN  Cardinality({k \in DOMAIN feats : feats[k] \in Range(names)})

RowSum(row) == SumTo(row, Len(row))

\* m has one row per document, one column per name, and nothing but the
\* occurrences of the names is counted in a row
CountsOver(m, docs, names, o) ==
    /\ Len(m.X) = Len(docs)
    /\ \A i \in 1..Len(docs) :
          /\ Len(m.X[i]) = Len(names)
          /\ RowSum(m.X[i]) = InVocabulary(docs[i], names, o)

TrainDocs == Head45(corpus)

TestDocs == Tail45(corpus)

(***************************************************************************)
(* C1.  Transform with a fitted vocabulary returns a matrix with exactly   *)
(* |Vocabulary| columns for any documents, also documents that are not in  *)
(* the fitting corpus: a token that is not in the vocabulary adds no       *)
(* column, is counted in no entry and raises no error.  The vocabulary of  *)
(* the train/test cell holds tokens of the training documents only, and    *)
(* the test matrix is as wide as the training matrix.                      *)
(***************************************************************************)
C1_UnseenTokensDropped ==
    /\ (cell = "CountingWordsII" /\ cv.fitted) =>
          /\ err = "none"
          /\ cv_array.of = cv.id
          /\ CountsOver(cv_array, corpus, cv.names, cv.o)
    /\ (cell = "TransformingUnseenData" /\ tv.fitted /\ TestDocs # <<>>) =>
          /\ err = "none"
          /\ test_tv_transformed.of = tv.id
          /\ tv_transformed.of = tv.id
          /\ Range(tv.names) \subseteq FeaturesOfAll(TrainDocs, tv.o)
          /\ CountsOver(test_tv_transformed, TestDocs, tv.names, tv.o)
          /\ \A i \in 1..Len(TestDocs) :
                Len(test_tv_transformed.X[i]) = Len(tv_transformed.X[1])

\* a test document with a token outside the vocabulary and one inside it
C1_Witness ==
    /\ cell = "TransformingUnseenData"
    /\ err = "none"
    /\ \E i \in 1..Len(TestDocs) :
          /\ ~(FeaturesOf(TestDocs[i], tv.o) \subseteq Range(tv.names))
          /\ RowSum(test_tv_transformed.X[i]) > 0

(***************************************************************************)
(* C2.  After Fit, a Transform (with or without TF-IDF weighting) leaves   *)
(* the vocabulary and the DF-table as they are, whatever the documents and *)
(* however often it is called: the cell that only transforms leaves cv     *)
(* unchanged, and after the train/test cell tv is the object the fit on    *)
(* the training documents made.                                            *)
(***************************************************************************)
C2_TransformLeavesVocabulary ==
    [][/\ cell' = "CountingWordsII" => cv' = cv
       /\ (cell' = "TransformingUnseenData" /\ tv'.fitted) =>
             tv' = AfterFit(Construct(TfidfOptions, nobj),
                            FitTransform(TrainDocs, TfidfOptions, tie_order))]_vars

\* a transform of documents that hold tokens the vocabulary does not
C2_Witness ==
    /\ cell = "CountingWordsII"
    /\ err = "none"
    /\ ~(FeaturesOfAll(corpus, cv.o) \subseteq Range(cv.names))

(***************************************************************************)
(* C3.  A vectorizer is Unfit (no vocabulary) or Fit (vocabulary bound).   *)
(* No step takes a Fit vectorizer back to Unfit or changes its vocabulary: *)
(* a cell that fits makes a new instance, so a matrix issued earlier keeps *)
(* the column count and the document frequencies of the vocabulary of its  *)
(* own vectorizer.                                                         *)
(***************************************************************************)
TwoStates(v) ==
    IF v.fitted THEN v.names # <<>> /\ Len(v.dfs) = Len(v.names)
    ELSE v.names = <<>> /\ v.dfs = <<>>

OneWay(v, w) ==
    (v.fitted /\ w.id = v.id) =>
        w.fitted /\ w.names = v.names /\ w.dfs = v.dfs /\ w.n_doc = v.n_doc

IssuedBy(m, v) ==
    (m.of # 0 /\ m.of = v.id) =>
        /\ v.fitted
        /\ m.dfs = v.dfs
        /\ \A i \in 1..Len(m.X) : Len(m.X[i]) = Len(v.names)

FitCells == {"CountingWordsI", "LimitingFeatures", "Tfidf", "TransformingUnseenData"}

C3_FitIsOneWay ==
    /\ [](/\ TwoStates(cv) /\ TwoStates(tv)
          /\ \A m \in {cv_array, tv_transformed, test_tv_transformed} :
                IssuedBy(m, cv) /\ IssuedBy(m, tv))
    /\ [][/\ OneWay(cv, cv') /\ OneWay(tv, tv')
          /\ cell' \in FitCells =>
                /\ nobj' = nobj + 1
                /\ \/ cv'.id = nobj' /\ tv' = tv
                   \/ tv'.id = nobj' /\ cv' = cv]_vars

\* a matrix issued by an earlier vectorizer, next to a cv fit again to another width
C3_Witness ==
    /\ cv_array.of # 0
    /\ cv.fitted
    /\ cv.id # cv_array.of
    /\ \E i \in 1..Len(cv_array.X) : Len(cv_array.X[i]) # Len(cv.names)

(***************************************************************************)
(* C4.  Transform or TF-IDF weighting on an Unfit vectorizer fails at once *)
(* with NotFittedError, produces no matrix and leaves the vectorizer       *)
(* Unfit.  cv is Unfit when the fit of its cell raised; the cell that      *)
(* transforms with it then raises and assigns nothing.  The same call on   *)
(* an Unfit tv has the same outcome.                                       *)
(***************************************************************************)
C4_UnfitTransformRaises ==
    /\ [][(cell' = "CountingWordsII" /\ ~cv.fitted) =>
            /\ err' = "NotFittedError"
            /\ cv_array' = cv_array
            /\ cv' = cv]_vars
    /\ [](\A v \in {cv, tv} :
            (v.id # 0 /\ ~v.fitted) =>
                \A docs \in {corpus, TestDocs} :
                    /\ Transform(v, docs).err = "NotFittedError"
                    /\ Transform(v, docs).m = NoMatrix
                    /\ ~Transform(v, docs).self.fitted)

\* the transform cell has just raised NotFittedError on a corpus with documents
C4_Witness ==
    /\ cell = "CountingWordsII"
    /\ err = "NotFittedError"
    /\ ~cv.fitted
    /\ corpus # <<>>

(***************************************************************************)
(* C5.  Fit fails with a configuration error (scikit-learn's ValueError)   *)
(* when min_df is above max_df once both are document counts, when the     *)
(* corpus is empty, or when no token survives the filtering.  The fit then *)
(* binds nothing, not even a part of the vocabulary: the vectorizer stays  *)
(* Unfit and no matrix is issued by it.                                    *)
(***************************************************************************)
ThresholdsContradict(o, n) ==
    LET low  == DocCountOf(o.min_df, n)
        high == DocCountOf(o.max_df, n)
    IN  low[1] * high[2] > high[1] * low[2]

WithinDf(t, docs, o) ==
    LET low  == DocCountOf(o.min_df, Len(docs))
        high == DocCountOf(o.max_df, Len(docs))
        df   == DF(t, docs, o)
    IN  low[1] <= df * low[2] /\ df * high[2] <= high[1]

Survivors(docs, o) == {t \in FeaturesOfAll(docs, o) : WithinDf(t, docs, o)}

FitMustFail(docs, o) ==
    \/ docs = <<>>
    \/ ThresholdsContradict(o, Len(docs))
    \/ Survivors(docs, o) = {}

FitAborted(v) ==
    /\ err = "ValueError"
    /\ ~v.fitted /\ v.names = <<>> /\ v.dfs = <<>>
    /\ \A m \in {cv_array, tv_transformed, test_tv_transformed} : m.of # v.id

C5_FitFailsCleanly ==
    /\ (cell \in {"CountingWordsI", "LimitingFeatures"} /\ FitMustFail(corpus, cv.o))
          => FitAborted(cv)
    /\ (cell = "Tfidf" /\ FitMustFail(corpus, tv.o)) => FitAborted(tv)
    /\ (cell = "TransformingUnseenData" /\ FitMustFail(TrainDocs, tv.o)) => FitAborted(tv)

\* min_df above max_df on a corpus that has tokens
C5_Witness ==
    /\ cell = "LimitingFeatures"
    /\ err = "ValueError"
    /\ ThresholdsContradict(cv.o, Len(corpus))
    /\ FeaturesOfAll(corpus, cv.o) # {}

(***************************************************************************)
(* C6.  Where max_features is configured, a successful Fit binds at most   *)
(* max_features tokens, and the matrices of that vectorizer have at most   *)
(* max_features columns.                                                   *)
(***************************************************************************)
C6_AtMostMaxFeatures ==
    \A v \in {cv, tv} :
        (v.fitted /\ v.o.max_features # 0) =>
            /\ Len(v.names) <= v.o.max_features
            /\ \A m \in {cv_array, tv_transformed, test_tv_transformed} :
                  m.of = v.id =>
                      \A i \in 1..Len(m.X) : Len(m.X[i]) <= v.o.max_features

\* more tokens qualify than max_features allows, and exactly max_features are kept
C6_Witness ==
    /\ cell = "Tfidf"
    /\ tv.fitted
    /\ Cardinality(Survivors(corpus, tv.o)) > tv.o.max_features
    /\ Len(tv.names) = tv.o.max_features

(***************************************************************************)
(* C7.  After a Fit with fractional min_df and max_df on N documents,      *)
(* every token t of the vocabulary has min_df <= DF(t)/N <= max_df, both   *)
(* bounds included, DF(t) being the number of the fitting documents that   *)
(* contain t; the document frequency the fit computed for t is that DF(t). *)
(***************************************************************************)
Fractional(o) == ~o.min_df.int /\ ~o.max_df.int

C7_VocabularyWithinDf ==
    (cv.fitted /\ Fractional(cv.o)) =>
        \A j \in 1..Len(cv.names) :
            LET df == DF(cv.names[j], corpus, cv.o)
                N  == Len(corpus)
            IN  /\ cv.o.min_df.num * N <= df * cv.o.min_df.den
                /\ df * cv.o.max_df.den <= cv.o.max_df.num * N
                /\ cv.dfs[j] = df

\* min_df=0.2, max_df=0.8: one token of the corpus is kept and one is pruned
C7_Witness ==
    /\ cell = "LimitingFeatures"
    /\ cv.fitted
    /\ cv.o.min_df = Frac(1, 5) /\ cv.o.max_df = Frac(4, 5)
    /\ \E t \in FeaturesOfAll(corpus, cv.o) : t \notin Range(cv.names)

Presence(m, j) == Cardinality({i \in 1..Len(m.X) : m.X[i][j] > 0})

C9_PresenceIsDocumentFrequency ==
    /\ (cell = "CountingWordsII" /\ err = "none") =>
          \A j \in 1..Len(cv.names) :
              /\ Presence(cv_array, j) = cv.dfs[j]
              /\ Presence(cv_array, j) = DF(cv.names[j], corpus, cv.o)
    /\ (cell = "Tfidf" /\ err = "none") =>
          \A j \in 1..Len(tv.names) : Presence(tv_transformed, j) = tv.dfs[j]

\* a column whose sum of counts is larger than its document frequency
C9_Witness ==
    /\ cell = "CountingWordsII"
    /\ err = "none"
    /\ \E j \in 1..Len(cv.names) :
          SumTo([i \in 1..Len(cv_array.X) |-> cv_array.X[i][j]], Len(cv_array.X))
              > cv.dfs[j]

(***************************************************************************)
(* C10.  Fit is deterministic: a second Fit with the same options on the   *)
(* same corpus binds the same vocabulary (tokens and column indices) and   *)
(* the same DF-table as the first, or fails as the first did.              *)
(***************************************************************************)
SameFit(v, w) ==
    /\ w.fitted = v.fitted
    /\ w.names = v.names
    /\ VocabularyOf(w) = VocabularyOf(v)
    /\ w.dfs = v.dfs
    /\ w.n_doc = v.n_doc

NormIsOne(row) ==
    LET s == SumSq(row)
    IN  /\ (s - Scale * Scale) * 100 <= Scale * Scale
        /\ (Scale * Scale - s) * 100 <= Scale * Scale

AllZero(row) == \A j \in 1..Len(row) : row[j] = 0

UnitRows(m, docs, v) ==
    /\ Len(m.W) = Len(docs)
    /\ \A i \in 1..Len(docs) :
          /\ Len(m.W[i]) = Len(v.names)
          /\ IF InVocabulary(docs[i], v.names, v.o) > 0
             THEN NormIsOne(m.W[i]) ELSE AllZero(m.W[i])

C11_TfidfRowsUnitNorm ==
    /\ (cell = "Tfidf" /\ err = "none") =>
          UnitRows(tv_transformed, corpus, tv) /\ tv_df.X = tv_transformed.W
    /\ (cell = "TransformingUnseenData" /\ tv.fitted) =>
          UnitRows(tv_transformed, TrainDocs, tv)
    /\ (cell = "TransformingUnseenData" /\ err = "none") =>
          /\ UnitRows(test_tv_transformed, TestDocs, tv)
          /\ test_tv_df.X = test_tv_transformed.W

\* a test document with words but none of the vocabulary (an all-zero row), next
\* to a training row with two weights and one with a single weight
C11_Witness ==
    /\ cell = "TransformingUnseenData"
    /\ err = "none"
    /\ \E i \in 1..Len(TestDocs) :
          TestDocs[i] # <<>> /\ AllZero(test_tv_transformed.W[i])
    /\ \E i \in 1..Len(TestDocs) :
          Cardinality({j \in 1..Len(tv.names) : test_tv_transformed.W[i][j] > 0}) = 1
    /\ \E i \in 1..Len(TrainDocs) :
          Cardinality({j \in 1..Len(tv.names) : tv_transformed.W[i][j] > 0}) = 2

(***************************************************************************)
(* Top-K inspection: what the two inspection cells print.  InspectStep(k)  *)
(* is a step of one of them that showed k rows, Inspected the series it    *)
(* sorted.                                                                 *)
(***************************************************************************)
InspectStep(k) == (InspectingTfidf(k) \/ MostCommonWords(k)) /\ err' = "none"

Inspected == IF cell = "InspectingTfidf" THEN sample_row ELSE FrameSum(cv_tri_df)

\* p lists min(k, |src|) entries of src, no label twice, in non-increasing order
\* of value, and no entry left out has a larger value than one listed
TopKOf(src, p, k) ==
    /\ Len(p.index) = Min2(k, Len(src.index))
    /\ Len(p.values) = Len(p.index)
    /\ \A r \in 1..(Len(p.values) - 1) : p.values[r] >= p.values[r + 1]
    /\ \A r, q \in 1..Len(p.index) : r # q => p.index[r] # p.index[q]
    /\ \A r \in 1..Len(p.index) :
          \E j \in 1..Len(src.index) :
              src.index[j] = p.index[r] /\ src.values[j] = p.values[r]
    /\ \A j \in 1..Len(src.index) :
          src.index[j] \notin Range(p.index) =>
              \A r \in 1..Len(p.values) : src.values[j] <= p.values[r]

\* entries of equal value are listed, and chosen at the cut-off, in ascending
\* order of their labels
TiesLexicographic(src, p) ==
    /\ \A r \in 1..(Len(p.values) - 1) :
          p.values[r] = p.values[r + 1] => StrLess(p.index[r], p.index[r + 1])
    /\ \A j \in 1..Len(src.index) :
          src.index[j] \notin Range(p.index) =>
              \A r \in 1..Len(p.values) :
                  src.values[j] = p.values[r] => StrLess(p.index[r], src.index[j])

(***************************************************************************)
(* C14.  As the specification states it: Top-K inspection of a weighted    *)
(* row returns exactly min(k, |Vocabulary|) (token, weight) pairs, the k   *)
(* highest weights of the row in non-increasing order, tokens of equal     *)
(* weight ordered, and selected at the cut-off, by ascending lexicographic *)
(* token order.                                                            *)
(***************************************************************************)
C14_TopKLexicographicTies ==
    [][\A k \in 1..MaxHead :
          InspectStep(k) =>
              TopKOf(Inspected', printed', k) /\ TiesLexicographic(Inspected', printed')]_vars

(***************************************************************************)
(* C14 as amended.  Top-K inspection returns exactly min(k, |Vocabulary|)  *)
(* (token, weight) pairs of the row, in non-increasing weight order, and   *)
(* no token left out has a higher weight than a token returned; the order  *)
(* of tokens of equal weight, and which of them are returned at the        *)
(* cut-off, is left to the sort.                                           *)
(***************************************************************************)
C14_TopKByWeight ==
    [][\A k \in 1..MaxHead : InspectStep(k) => TopKOf(Inspected', printed', k)]_vars

\* a row with a tie at the cut-off has been inspected: fewer entries are printed
\* than the row has, and an entry left out has the weight of the last one printed
C14_Witness ==
    /\ cell = "InspectingTfidf"
    /\ Len(printed.index) < Len(sample_row.index)
    /\ \E j \in 1..Len(sample_row.index) :
          /\ sample_row.index[j] \notin Range(printed.index)
          /\ sample_row.values[j] = printed.values[Len(printed.values)]

(***************************************************************************)
(* max_features.  Qualifying tokens are those within the document-         *)
(* frequency thresholds; a token's frequency is the number of times it     *)
(* occurs in the fitting corpus, all documents together.                   *)
(***************************************************************************)
RECURSIVE Occurrences(_, _, _)
Occurrences(t, docs, o) ==
    IF docs = <<>> THEN 0
    ELSE CountIn(t, Analyze(Head(docs), o)) + Occurrences(t, Tail(docs), o)

\* the max_features most frequent qualifying tokens are kept: no qualifying token
\* left out occurs more often than a token kept
MostFrequentKept(v, docs) ==
    LET qualifying == Survivors(docs, v.o)
        kept       == Range(v.names)
    IN  /\ kept \subseteq qualifying
        /\ Len(v.names) = Min2(v.o.max_features, Cardinality(qualifying))
        /\ \A t \in qualifying \ kept : \A u \in kept :
              Occurrences(t, docs, v.o) <= Occurrences(u, docs, v.o)

\* of the tokens that are as frequent as the least frequent token kept, the
\* lexicographically smaller ones are kept
CutOffLexicographic(v, docs) ==
    \A t \in Survivors(docs, v.o) \ Range(v.names) : \A u \in Range(v.names) :
        Occurrences(t, docs, v.o) = Occurrences(u, docs, v.o) => StrLess(u, t)

Capped(v) == v.fitted /\ v.o.max_features # 0

(***************************************************************************)
(* C17.  As the specification states it: when more tokens qualify than     *)
(* max_features allows, Fit keeps the max_features most frequent           *)
(* qualifying tokens, ties in frequency at the cut-off broken by           *)
(* lexicographic token order.                                              *)
(***************************************************************************)
C17_CutOffTiesLexicographic ==
    \A v \in {tv, cv_trigram_vec} :
        Capped(v) => MostFrequentKept(v, corpus) /\ CutOffLexicographic(v, corpus)

(***************************************************************************)
(* C17 as amended.  When more tokens qualify than max_features allows, Fit *)
(* keeps max_features qualifying tokens and no excluded qualifying token   *)
(* occurs more often in the corpus than a kept one; which of the tokens    *)
(* that tie at the cut-off are kept is left to the sort.                   *)
(***************************************************************************)
C17_MostFrequentKept ==
    \A v \in {tv, cv_trigram_vec} : Capped(v) => MostFrequentKept(v, corpus)

\* n-grams cut to max_features, with a tie at the cut-off and a more frequent
\* n-gram above it
C17_Witness ==
    /\ Capped(cv_trigram_vec)
    /\ Cardinality(Survivors(corpus, cv_trigram_vec.o)) > cv_trigram_vec.o.max_features
    /\ \E t \in Survivors(corpus, cv_trigram_vec.o) \ Range(cv_trigram_vec.names) :
          \E u, w \in Range(cv_trigram_vec.names) :
              /\ Occurrences(t, corpus, cv_trigram_vec.o)
                    = Occurrences(u, corpus, cv_trigram_vec.o)
              /\ Occurrences(t, corpus, cv_trigram_vec.o)
                    < Occurrences(w, corpus, cv_trigram_vec.o)

(***************************************************************************)
(* n-grams.  TokensOf(doc) are the tokens of a document, KeptTokens(doc,   *)
(* o) those of them that are not stop words; RunsOf(tokens, n1, n2) are    *)
(* the contiguous runs of n1 to n2 of the tokens, joined by single spaces. *)
(***************************************************************************)
TokensOf(doc) == Tokenize(Lower(doc))

KeptTokens(doc, o) == SelectSeq(TokensOf(doc), LAMBDA w : w \notin o.stop_words)

RunsOf(tokens, n1, n2) ==
    {Join(SubSeq(tokens, p[1], p[1] + p[2] - 1)) :
        p \in {q \in (1..Len(tokens)) \X (n1..n2) : q[1] + q[2] - 1 <= Len(tokens)}}

\* the number of words in a vocabulary entry
WordsIn(entry) == Len(Runs(entry, <<>>))

CatDogSatThe ==
    /\ cv.fitted
    /\ cv.names = <<cat, dog, sat, the>>
    /\ VocabularyOf(cv) = [t \in {cat, dog, sat, the} |->
                              IF t = cat THEN 0 ELSE IF t = dog THEN 1
                              ELSE IF t = sat THEN 2 ELSE 3]
    /\ cv_array.of = cv.id
    /\ cv_array.X = << <<1, 0, 1, 1>>, <<0, 1, 1, 1>> >>
    /\ cv_array.W = cv_array.X

C12_TheCatSatExample ==
    (/\ corpus = TheCatSat
     /\ cv.o = AllDfOptions
     /\ cell \in {"LimitingFeatures", "CountingWordsII"}) => err = "none" /\ CatDogSatThe

\* the example corpus has been fit and then transformed
C12_Witness ==
    /\ corpus = TheCatSat
    /\ cv.o = AllDfOptions
    /\ cell = "CountingWordsII"
    /\ err = "none"

(***************************************************************************)
(* C13.  As the specification states it: a vectorizer fit on ["a b c"]     *)
(* fits with the vocabulary a, b, c, and Transform of "a b d" gives the    *)
(* counts 1, 1, 0 and no column for d.                                     *)
(***************************************************************************)
FitOnFirstAppliedToSecond(docs) ==
    /\ cell = "TransformingUnseenData"
    /\ tv.o = DefaultOptions("count")
    /\ TrainDocs = <<docs[1]>>
    /\ TestDocs = <<docs[2]>>

Repaired(docs) == [i \in 1..Len(docs) |-> IF docs[i] = NaN THEN <<>> ELSE docs[i]]

AsIfEmpty(v, m, docs) ==
    LET r == FitTransform(Repaired(docs), v.o, tie_order)
    IN  /\ v.fitted = (r.err = "none")
        /\ r.err = "none" =>
              /\ v.names = r.names
              /\ m.of = v.id
              /\ m.X = r.X
              /\ \A i \in 1..Len(docs) : docs[i] = NaN => AllZero(m.X[i])

C16_MalformedAsEmpty ==
    /\ (cell = "LimitingFeatures" /\ HasNaN(corpus)) =>
          /\ AsIfEmpty(cv, cv_array, corpus)
          /\ cv.fitted => err = "none"
    /\ (cell = "TransformingUnseenData" /\ HasNaN(TrainDocs)) =>
          AsIfEmpty(tv, tv_transformed, TrainDocs)
    /\ (cell = "TransformingUnseenData" /\ tv.fitted /\ HasNaN(TestDocs)) =>
          /\ err = "none"
          /\ test_tv_transformed.of = tv.id
          /\ test_tv_transformed.X = CountMatrix(Repaired(TestDocs), tv.names, tv.o)

(***************************************************************************)
(* C18.  With stop_words configured, no vocabulary entry after Fit is a    *)
(* stop word, and no n-gram of the vocabulary holds one, whatever the      *)
(* document frequency of the stop word and whatever min_df, max_df and     *)
(* max_features are.                                                       *)
(***************************************************************************)
C18_NoStopWordInVocabulary ==
    \A v \in {cv, tv} :
        v.fitted =>
            \A j \in 1..Len(v.names) :
                /\ v.names[j] \notin v.o.stop_words
                /\ Range(Runs(v.names[j], <<>>)) \cap v.o.stop_words = {}

\* a fit with stop words, limited further, on a corpus with a stop word in every
\* document
C18_Witness ==
    /\ cell = "LimitingFeatures"
    /\ cv.fitted
    /\ cv.o.stop_words # {}
    /\ cv.o # [DefaultOptions("count") EXCEPT !.stop_words = EnglishStopWords]
    /\ \E w \in cv.o.stop_words :
          \A i \in 1..Len(corpus) : w \in Range(TokensOf(corpus[i]))

(***************************************************************************)
(* C20.  The vocabulary maps the tokens one-to-one onto the column indices *)
(* 0 .. |Vocabulary| - 1, in ascending lexicographic order of the tokens,  *)
(* and once fit a vectorizer keeps this mapping in every later step.       *)
(***************************************************************************)
IndexedInOrder(v) ==
    LET voc == VocabularyOf(v)
    IN  /\ Cardinality(DOMAIN voc) = Len(v.names)
        /\ {voc[t] : t \in DOMAIN voc} = 0..(Len(v.names) - 1)
        /\ \A t, u \in DOMAIN voc : (voc[t] = voc[u]) => t = u
        /\ \A t, u \in DOMAIN voc : StrLess(t, u) <=> voc[t] < voc[u]
        /\ \A j \in 1..Len(v.names) : voc[v.names[j]] = j - 1

C20_VocabularyIndicesStable ==
    /\ [](\A v \in {cv, tv} : v.fitted => IndexedInOrder(v))
    /\ [][/\ (cv.fitted /\ cv'.id = cv.id) => VocabularyOf(cv') = VocabularyOf(cv)
          /\ (tv.fitted /\ tv'.id = tv.id) => VocabularyOf(tv') = VocabularyOf(tv)]_vars

\* a vectorizer with three tokens or more has been used after its fit
C20_Witness ==
    /\ cell = "CountingWordsII"
    /\ err = "none"
    /\ Len(cv.names) >= 3
    /\ cv.names[1] # Head(Analyze(corpus[1], cv.o))

(***************************************************************************)
(* C15.  Once the fit has completed, calls of Transform on batches of      *)
(* their own may be interleaved in any way without a lock: each call       *)
(* returns the matrix (or raises the error) it returns when it runs alone, *)
(* and the vocabulary and the document frequencies stay what the fit made  *)
(* them.                                                                   *)
(***************************************************************************)
AsAlone(me) ==
    LET t == Transform(cv, me.docs)
    IN  me.err = t.err /\ me.result = t.m

C15_InterleavedTransforms ==
    /\ \A w \in Workers :
          (workers[w].pc = "done" /\ workers[w].of = cv.id) => AsAlone(workers[w])
    /\ cv.id # 0 =>
          cv = AfterFit(Construct(DefaultOptions("count"), cv.id - 1),
                        FitTransform(corpus, DefaultOptions("count"), tie_order))

\* two calls on different batches have run interleaved, both with documents that
\* hold tokens the vocabulary does not
C15_Witness ==
    /\ cv.fitted
    /\ \A w \in Workers :
          /\ workers[w].pc = "done"
          /\ workers[w].of = cv.id
          /\ workers[w].overlapped
          /\ Len(workers[w].docs) >= 2
          /\ ~(FeaturesOfAll(workers[w].docs, cv.o) \subseteq Range(cv.names))
    /\ workers["t1"].docs # workers["t2"].docs

(***************************************************************************)
(* C21.  The TF-IDF weight of token j in document i is, before the row is  *)
(* normalized, raw_count(i,j) * idf_j with idf_j = ln((1+N)/(1+df_j)) + 1, *)
(* N and df_j counted over the fitting documents.  What the matrix shows   *)
(* of it: the weights of a row are in the proportion of these products (up *)
(* to the rounding of the last digit), and of two tokens with the same     *)
(* count in a document the one that is in more fitting documents never has *)
(* the larger weight.                                                      *)
(***************************************************************************)
Abs(x) == IF x < 0 THEN -x ELSE x

LnTimesScale(n) == Ln[n]

\* the document frequencies of the vocabulary in the documents the fit read,
\* counted once for the matrix
Frequencies(v, fitted_on) ==
    SubSeq([j \in 1..Len(v.names) |-> DF(v.names[j], fitted_on, v.o)], 1, Len(v.names))

\* the counts of row i times the idf of their columns
Products(m, dfs, n_fit, i) ==
    SubSeq([j \in 1..Len(dfs) |->
               m.X[i][j] * (LnTimesScale(1 + n_fit) - LnTimesScale(1 + dfs[j]) + Scale)],
           1, Len(dfs))

WeightedByIdf(m, v, fitted_on) ==
    LET dfs == Frequencies(v, fitted_on)
    IN  \A i \in 1..Len(m.W) :
            LET a == Products(m, dfs, Len(fitted_on), i)
            IN  \A j, k \in 1..Len(v.names) :
                    /\ 2 * Abs(m.W[i][j] * a[k] - m.W[i][k] * a[j]) <= a[j] + a[k]
                    /\ (m.X[i][j] = m.X[i][k] /\ dfs[j] >= dfs[k])
                          => m.W[i][j] <= m.W[i][k]

C21_WeightIsCountTimesIdf ==
    /\ (cell = "Tfidf" /\ err = "none") => WeightedByIdf(tv_transformed, tv, corpus)
    /\ (cell = "TransformingUnseenData" /\ tv.fitted) =>
          WeightedByIdf(tv_transformed, tv, TrainDocs)
    /\ (cell = "TransformingUnseenData" /\ err = "none") =>
          WeightedByIdf(test_tv_transformed, tv, TrainDocs)

\* a document with two tokens of the vocabulary, each once, one of them in more
\* fitting documents than the other and with the strictly smaller weight
C21_Witness ==
    /\ cell = "Tfidf"
    /\ err = "none"
    /\ \E i \in 1..Len(corpus) : \E j, k \in 1..Len(tv.names) :
          /\ tv_transformed.X[i][j] = 1
          /\ tv_transformed.X[i][k] = 1
          /\ tv.dfs[j] > tv.dfs[k]
          /\ tv_transformed.W[i][j] < tv_transformed.W[i][k]

(***************************************************************************)
(* C22.  In the train/test cell the vocabulary, the document frequencies   *)
(* and with them the idf weights come from the training rows alone: when   *)
(* the cell runs again with the same options on data whose training rows   *)
(* are the same and whose test rows are others, the vectorizer it binds    *)
(* has the vocabulary, the document frequencies and the training matrix of *)
(* the run before.  The test matrix has the columns of the training        *)
(* matrix.                                                                 *)
(***************************************************************************)
SameColumns(v, train, test, frame) ==
    /\ \A i \in 1..Len(train.W) : Len(train.W[i]) = Len(v.names)
    /\ \A i \in 1..Len(test.W) : Len(test.W[i]) = Len(v.names)
    /\ frame.columns = AddPrefix("TFIDF_", v.names)
    /\ test.dfs = train.dfs

RunAgain ==
    /\ cell = "TransformingUnseenData"
    /\ cell' = "TransformingUnseenData"
    /\ nobj' = nobj + 1
    /\ tv'.o = tv.o

C22_FitReadsTrainingRowsOnly ==
    /\ []((cell = "TransformingUnseenData" /\ err = "none") =>
            SameColumns(tv, tv_transformed, test_tv_transformed, test_tv_df))
    /\ [][RunAgain =>
            /\ tv'.fitted = tv.fitted
            /\ tv'.names = tv.names
            /\ tv'.dfs = tv.dfs
            /\ tv'.n_doc = tv.n_doc
            /\ tv.fitted => tv_transformed'.W = tv_transformed.W]_vars

\* the second run, its test rows with tokens that the vocabulary does not hold and
\* that would have changed it
C22_Witness ==
    /\ cell = "TransformingUnseenData"
    /\ err = "none"
    /\ tv.id = 2
    /\ Len(tv.names) >= 2
    /\ Len(corpus) > Len(TrainingRows(corpus))
    /\ ~(FeaturesOfAll(corpus, tv.o) \subseteq Range(tv.names))

(***************************************************************************)
(* C23.  The cleaning puts one space for every character that is not a     *)
(* letter a-z or A-Z and the lower-case letter for every letter, position  *)
(* by position: the cleaned text has the length of the text, holds only    *)
(* lower-case letters and spaces, and cleaning it again changes nothing.   *)
(***************************************************************************)
IsLowerLetter(c) == IsLetter(c) /\ ~IsUpper(c)

CleanedFrom(clean, text) ==
    /\ Len(clean) = Len(text)
    /\ \A i \in 1..Len(text) :
          /\ ~IsLetter(text[i]) => clean[i] = " "
          /\ IsLowerLetter(text[i]) => clean[i] = text[i]
          /\ IsUpper(text[i]) => clean[i] = LowerChar(text[i]) /\ clean[i] # text[i]
          /\ IsLowerLetter(clean[i]) \/ clean[i] = " "

C23_CleaningCharacterWise ==
    cell = "CleaningText" =>
        /\ Len(corpus) = Len(speech_text)
        /\ \A i \in 1..Len(corpus) :
              speech_text[i] # NaN =>
                  /\ CleanedFrom(corpus[i], speech_text[i])
                  /\ Lower(ReplaceNonLetters(corpus[i])) = corpus[i]

\* a text with capitals, a digit, an underscore and two non-letters in a row has
\* been cleaned
C23_Witness ==
    /\ cell = "CleaningText"
    /\ \E i \in 1..Len(corpus) :
          /\ speech_text[i] # NaN
          /\ \E j \in 1..Len(speech_text[i]) : IsUpper(speech_text[i][j])
          /\ \E j \in 1..Len(speech_text[i]) : speech_text[i][j] = "7"
          /\ \E j \in 1..Len(speech_text[i]) : speech_text[i][j] = "_"
    /\ \E i \in 1..Len(corpus) : corpus[i] = <<"c", " ", " ">>

(***************************************************************************)
(* C30.  In every order of the cells, whenever the cell Text to DataFrame  *)
(* builds cv_df, the array cv_array and the vectorizer cv come from the    *)
(* same fit, so that the array has as many columns as there are feature    *)
(* names.  As stated, with the same fit, this does not hold.               *)
(***************************************************************************)
Built == cell = "TextToDataFrame" /\ err = "none"

ColumnsMatch ==
    /\ Len(cv_df.columns) = Len(cv.names)
    /\ \A i \in 1..Len(cv_array.X) : Len(cv_array.X[i]) = Len(cv.names)
    /\ cv_df.X = cv_array.X

C30_SameFit == Built => (cv_array.of = cv.id /\ ColumnsMatch)

(***************************************************************************)
(* C30, amended.  Whenever the cell builds cv_df the array has as many     *)
(* columns as there are feature names, and its columns hold the counts of  *)
(* the tokens that label them; the array and the vectorizer need not come  *)
(* from the same fit.                                                      *)
(***************************************************************************)
C30_ColumnsMatchNames ==
    Built =>
        /\ ColumnsMatch
        /\ cv_df.columns = AddPrefix("Counts_", cv.names)
        /\ cv_array.X = [i \in 1..Len(corpus) |->
                           [j \in 1..Len(cv.names) |->
                               CountIn(cv.names[j], Analyze(corpus[i], cv.o))]]

\* cv_df built from the array of one fit and the names of a later one
C30_Witness ==
    /\ Built
    /\ cv_array.of # cv.id
    /\ Len(cv.names) >= 2

(***************************************************************************)
(* C24.  The relabelling cell puts 'Other' for the Country of exactly the  *)
(* rows whose category occurred fewer than RareBelow times (10 in the      *)
(* notebook) in the column before the step, leaves the value of every      *)
(* other row, keeps the number of rows and changes no other column; run a  *)
(* second time it changes nothing.                                         *)
(***************************************************************************)
OccurrencesBefore(column, i) == Cardinality({k \in 1..Len(column) : column[k] = column[i]})

RelabelStep == cell' = "UncommonCategories"

C24_RareCategoriesRelabelled ==
    [][RelabelStep =>
        LET before == so_survey_df["Country"]
        IN  /\ Len(countries') = Len(before)
            /\ \A r \in 1..Len(before) :
                  countries'[r] = IF OccurrencesBefore(before, r) < RareBelow
                                  THEN "Other" ELSE before[r]
            /\ DOMAIN so_survey_df' = DOMAIN so_survey_df
            /\ \A c \in DOMAIN so_survey_df \ {"Country"} :
                  so_survey_df'[c] = so_survey_df[c]
            /\ so_survey_df'["Country"] \in {before, countries'}
            /\ cell = "UncommonCategories" => countries' = countries
            /\ before = countries => so_survey_df' = so_survey_df]_vars

\* the cell has run and its assignment has reached the frame: one row was
\* relabelled, one was not, and 'Other' is itself uncommon
C24_Witness ==
    /\ cell = "UncommonCategories"
    /\ so_survey_df["Country"] = countries
    /\ "Other" \in DOMAIN shown
    /\ shown["Other"] < RareBelow
    /\ \E r \in 1..Len(countries) :
          countries[r] = "Other" /\ csv["Country"][r] \notin {"Other", "NaN"}
    /\ \E r \in 1..Len(countries) : countries[r] = "France"

(***************************************************************************)
(* C27.  One-hot encoding of Country makes one OH_ column per category of  *)
(* the column, and every row has exactly one 1 in them, in the column of   *)
(* its category.  Dummy encoding with drop_first makes the same columns    *)
(* under the prefix DM_ except that of the first category in sorted order: *)
(* one column fewer, and the rows of the dropped category are all zero.    *)
(* Neither changes the other columns or the number of rows.  (A frame      *)
(* without rows has no category and no column to drop.)                    *)
(***************************************************************************)
Before(c, d) ==
    \E a, b \in 1..Len(CategoryOrder) :
        a < b /\ CategoryOrder[a] = c /\ CategoryOrder[b] = d

IndicatorOf(frame, r, c) ==
    IF \E j \in 1..Len(frame.columns) : frame.columns[j] = c
    THEN frame.X[r][CHOOSE j \in 1..Len(frame.columns) : frame.columns[j] = c]
    ELSE 0

C27_OneHotAndDummy ==
    cell = "OneHotEncoding" =>
        LET column == so_survey_df["Country"]
            cats   == Range(column)
            first  == {c \in cats : \A d \in cats \ {c} : Before(c, d)}
        IN  /\ one_hot_encoded.prefix = "OH" /\ dummy.prefix = "DM"
            /\ Range(one_hot_encoded.columns) = cats
            /\ Len(one_hot_encoded.columns) = Cardinality(cats)
            /\ Range(dummy.columns) = cats \ first
            /\ Len(dummy.columns) = Cardinality(cats \ first)
            /\ cats # {} => /\ Cardinality(first) = 1
                            /\ Len(dummy.columns) = Len(one_hot_encoded.columns) - 1
            /\ Len(one_hot_encoded.X) = Len(column) /\ Len(dummy.X) = Len(column)
            /\ \A r \in 1..Len(column) :
                  /\ RowSum(one_hot_encoded.X[r]) = 1
                  /\ IndicatorOf(one_hot_encoded, r, column[r]) = 1
                  /\ RowSum(dummy.X[r]) = IF column[r] \in first THEN 0 ELSE 1
                  /\ \A c \in cats \ first :
                        IndicatorOf(dummy, r, c) = IndicatorOf(one_hot_encoded, r, c)
            /\ \A f \in {one_hot_encoded, dummy} :
                  /\ DOMAIN f.others = DOMAIN so_survey_df \ {"Country"}
                  /\ \A c \in DOMAIN f.others : f.others[c] = so_survey_df[c]

\* three rows of three categories, one of them the value put for a missing country
C27_Witness ==
    /\ cell = "OneHotEncoding"
    /\ Len(one_hot_encoded.columns) = 3
    /\ Len(dummy.columns) = 2
    /\ one_hot_encoded.columns[1] = "0"
    /\ \E r \in 1..Len(dummy.X) : RowSum(dummy.X[r]) = 0

(***************************************************************************)
(* C25.  After the binarizing cell Paid_Job is 1 in the rows whose         *)
(* ConvertedSalary is greater than 0 and 0 in all others, the rows whose   *)
(* salary was missing in the file (0 after the load) among them; the cell  *)
(* changes no other column.                                                *)
(***************************************************************************)
C25_PaidJobIffPositiveSalary ==
    [][cell' = "Binarizing" =>
        /\ DOMAIN so_survey_df' = DOMAIN so_survey_df \cup {"Paid_Job"}
        /\ \A c \in DOMAIN so_survey_df \ {"Paid_Job"} : so_survey_df'[c] = so_survey_df[c]
        /\ Len(so_survey_df'["Paid_Job"]) = Len(csv["ConvertedSalary"])
        /\ \A r \in 1..Len(csv["ConvertedSalary"]) :
              /\ so_survey_df'["Paid_Job"][r] \in {0, 1}
              /\ so_survey_df'["Paid_Job"][r] = 1 <=>
                    so_survey_df'["ConvertedSalary"][r].v > 0
              /\ csv["ConvertedSalary"][r].na =>
                    /\ so_survey_df'["ConvertedSalary"][r] = Num(0)
                    /\ so_survey_df'["Paid_Job"][r] = 0]_vars

\* a row with a salary missing in the file next to a row with a salary of 1
C25_Witness ==
    /\ cell = "Binarizing"
    /\ \E r \in 1..Len(csv["ConvertedSalary"]) :
          csv["ConvertedSalary"][r].na /\ so_survey_df["Paid_Job"][r] = 0
    /\ \E r \in 1..Len(csv["ConvertedSalary"]) :
          csv["ConvertedSalary"][r] = Num(1) /\ so_survey_df["Paid_Job"][r] = 1

(***************************************************************************)
(* C26.  Binning with the boundaries -inf, 10000, 50000, 100000, 150000,   *)
(* +inf and the labels Very low, Low, Medium, High, Very high gives every  *)
(* salary exactly one label, that of the interval, open on the left and    *)
(* closed on the right, it is in (10000 is Very low, 10001 is Low), and a  *)
(* larger salary never has a lower label.                                  *)
(***************************************************************************)
LabelRank(l) == CHOOSE k \in 1..Len(labels) : labels[k] = l

InInterval(x, k) ==
    /\ k > 1 => x > bins[k - 1]
    /\ k <= Len(bins) => x <= bins[k]

C26_BoundaryBinning ==
    (cell = "BinningValues" /\ err = "none") =>
        LET salary == so_survey_df["ConvertedSalary"]
            binned == so_survey_df["boundary_binned"]
        IN  /\ Len(binned) = Len(salary)
            /\ \A r \in 1..Len(salary) :
                  /\ Cardinality({k \in 1..Len(labels) : labels[k] = binned[r]}) = 1
                  /\ InInterval(salary[r].v, LabelRank(binned[r]))
                  /\ salary[r].v = 10000 => binned[r] = "Very low"
                  /\ salary[r].v = 10001 => binned[r] = "Low"
            /\ \A r, q \in 1..Len(salary) :
                  salary[r].v <= salary[q].v => LabelRank(binned[r]) <= LabelRank(binned[q])

\* a salary on a boundary and the next salary above it, with different labels
C26_Witness ==
    /\ cell = "BinningValues"
    /\ err = "none"
    /\ \E r, q \in 1..Len(csv["ConvertedSalary"]) :
          /\ so_survey_df["ConvertedSalary"][r] = Num(10000)
          /\ so_survey_df["ConvertedSalary"][q] = Num(10001)
          /\ so_survey_df["boundary_binned"][r] = "Very low"
          /\ so_survey_df["boundary_binned"][q] = "Low"


(***************************************************************************)
(* C28.  Mean imputation of StackOverflowJobsRecommend.  before is the     *)
(* column the cell finds, after the column it prints after the first fill  *)
(* (the head holds every row of a file this small), final the column it    *)
(* leaves.                                                                 *)
(***************************************************************************)
FillStep == so_survey_df # Nothing /\ cell' = "FillingContinuousMissingValues"

BeforeFill == so_survey_df["StackOverflowJobsRecommend"]

AfterFill == shown'[2]

FinalFill == so_survey_df'["StackOverflowJobsRecommend"]

IsMeanOfPresent(m, column) ==
    /\ Present(column) # {}
    /\ ~m.na
    /\ 2 * Abs(m.v * Cardinality(Present(column)) - Total(column))
           <= Cardinality(Present(column))

FilledByMean ==
    \A r \in 1..Len(BeforeFill) :
        IF BeforeFill[r].na THEN IsMeanOfPresent(AfterFill[r], BeforeFill)
        ELSE AfterFill[r] = BeforeFill[r]

NoneMissing == \A r \in 1..Len(AfterFill) : ~AfterFill[r].na

\* the second fill changes nothing: what the cell leaves is the rounding of
\* what the first fill left
SecondFillNoOp ==
    /\ Len(FinalFill) = Len(AfterFill)
    /\ \A r \in 1..Len(AfterFill) :
           /\ FinalFill[r].na = AfterFill[r].na
           /\ ~AfterFill[r].na =>
                  /\ FinalFill[r].v % Scale = 0
                  /\ 2 * Abs(FinalFill[r].v - AfterFill[r].v) <= Scale

\* C28 as stated: the fill gives every missing entry the mean of the present
\* ones, keeps the present ones, leaves none missing, and the second fill is a
\* no-op.
C28_FillLeavesNoneMissing ==
    [][FillStep =>
          /\ Len(AfterFill) = Len(BeforeFill)
          /\ FilledByMean
          /\ NoneMissing
          /\ SecondFillNoOp]_vars

\* C28: the fill keeps every present entry and the second fill is a no-op;
\* when at least one entry is present every missing entry gets the mean of the
\* present ones and none stays missing; when none is present the mean is NaN
\* and every entry stays missing.
C28_MeanImputation ==
    [][FillStep =>
          /\ Len(AfterFill) = Len(BeforeFill)
          /\ SecondFillNoOp
          /\ Present(BeforeFill) # {} => FilledByMean /\ NoneMissing
          /\ Present(BeforeFill) = {} => AfterFill = BeforeFill]_vars

\* a column with 7 and 8 present and one entry missing: the missing entry is
\* filled with 7.5 and rounded to 8
C28_Witness ==
    /\ cell = "FillingContinuousMissingValues"
    /\ err = "none"
    /\ Len(shown) = 3
    /\ \E r \in 1..Len(shown[1]) :
           /\ shown[1][r].na
           /\ shown[2][r] = Num(7 * Scale + Scale \div 2)
           /\ so_survey_df["StackOverflowJobsRecommend"][r] = Num(8 * Scale)
    /\ \A r \in 1..Len(shown[2]) : ~shown[2][r].na


(***************************************************************************)
(* C29.  The chained expression against the cells that do the same steps   *)
(* one at a time: Dealing with stray characters (I), then (II).            *)
(***************************************************************************)
StepsBegin ==
    /\ so_survey_df # Nothing
    /\ cell = "HowSparseIsMyData"
    /\ cell' = "StrayCharactersI"

StepsEnd ==
    /\ so_survey_df # Nothing
    /\ cell = "StrayCharactersI"
    /\ err = "none"
    /\ cell' = "StrayCharactersII"

ChainAfterSteps ==
    /\ so_survey_df # Nothing
    /\ cell = "StrayCharactersII"
    /\ err = "none"
    /\ cell' = "MethodChaining"

\* C29: the steps run one after the other on the column as read end with the
\* column the chained expression gives for the file, and raise when it raises
\* (the .str accessor refused on a numeric column, the cast refused on a text
\* that is no number); the chained cell run after the steps leaves the column
\* as the steps left it.  Each case is a step from one cell to another, so the
\* steps that leave cell alone are the ones passed over.
C29_ChainingEqualsStepByStep ==
    [][/\ StepsBegin => ((err' = "AttributeError") <=> (Chained(csv).err = "AttributeError"))
       /\ StepsEnd =>
              /\ err' = Chained(csv).err
              /\ err' = "none" => so_survey_df'["RawSalary"] = Chained(csv).column
       /\ ChainAfterSteps =>
              /\ err' = "none"
              /\ so_survey_df'["RawSalary"] = so_survey_df["RawSalary"]]_cell

\* the chained cell has cast a column in which one entry had '$' and ',' and
\* another '£'
C29_Witness ==
    /\ cell = "MethodChaining"
    /\ err = "none"
    /\ so_survey_df # Nothing
    /\ so_survey_df["RawSalary"].dtype = "float64"
    /\ \E i, j \in 1..Len(csv["RawSalary"]) :
           /\ csv["RawSalary"][i] = <<"$", "1", ",", "2">>
           /\ so_survey_df["RawSalary"].values[i] = Num(12 * Scale)
           /\ csv["RawSalary"][j] = <<"£", "2", ".">>
           /\ so_survey_df["RawSalary"].values[j] = Num(2 * Scale)

=============================================================================
